---- MODULE Spec2Model ----
(***************************************************************************)
(* A model of crates/mbe/src/syntax_bridge.rs: the conversion between a    *)
(* syntax tree (or a lexed text) and a token tree.                         *)
(*                                                                         *)
(* Texts are sequences of one-character strings, text ranges are records   *)
(* [start, end], spans are records [anchor, range, ctx].  A token tree is  *)
(* a record tagged by its field tt: "Ident", "Literal", "Punct" or         *)
(* "Subtree".                                                              *)
(***************************************************************************)
EXTENDS Integers, Sequences, FiniteSets, TLC

VARIABLES
    backend,        \* "raw" (RawConverter) or "tree" (Converter)
    toks,           \* the source tokens, in source order
    lexErrors,      \* lexed.errors().next().is_some()
    mapMode,        \* the supplied TokenMap: "none" (no span for any range) or "all"
    anchor_offset,  \* Converter::offset
    pos,            \* RawConverter::pos / Converter::current, 1-based
    punct_offset,   \* Converter::punct_offset: <<>> or <<[idx, off]>>
    stack,          \* convert_tokens: the NonEmptyVec of frames
    pc,             \* where the conversion stands
    result,         \* <<>> (nothing returned, or None) or <<subtree>>
    ents,           \* the TokenBuffer the reverse conversion reads, flattened
    cursor,         \* TtTreeSink::cursor: an index into ents
    buf,            \* TtTreeSink::buf
    text_pos,       \* TtTreeSink::text_pos
    inner,          \* TtTreeSink::inner: the calls made on the SyntaxTreeBuilder
    token_map,      \* TtTreeSink::token_map: the entries in insertion order
    events,         \* how many parser events the sink has handled
    event,          \* the parser event handled last (a parser::Step)
    spc,            \* where the reverse conversion stands
    split_tt,       \* parse_exprs_with_sep: the token trees of tt
    sep,            \* parse_exprs_with_sep: the separator character
    iter,           \* parse_exprs_with_sep: iter, the index of its next token tree
    fork,           \* parse_exprs_with_sep: fork, likewise
    res,            \* parse_exprs_with_sep: res
    ppc,            \* where parse_exprs_with_sep stands
    censored,       \* Converter::censored: syntax nodes, each [lo, hi] over toks
    raw,            \* anymap::Map::raw: per hash, the (TypeId, value) pairs stored
    pending,        \* the Entry that borrows the map: <<>> or <<entry>>
    ncalls,         \* how many times a default function was called
    ret,            \* what the last Map operation returned
    build,          \* the build: [profile: "debug" or "release", endian: "little" or "big"]
    hvalue,         \* TypeIdHasher::value: a u64 as its eight bytes, most significant first
    hbytes,         \* the bytes of the last write: <<>> or <<bytes>>
    hout,           \* what the last finish returned: <<>> or <<u64>>
    hpc,            \* "run", or "panic" after a failed debug assertion
    map,            \* map_from_syntax_node: map, the entries in insertion order
    mtok,           \* map_from_syntax_node: the index of the next descendant token
    mfpc            \* where map_from_syntax_node stands

fvars == <<backend, toks, lexErrors, mapMode, anchor_offset, pos, punct_offset,
           stack, pc, result>>

svars == <<ents, cursor, buf, text_pos, inner, token_map, events, event, spc>>

pvars == <<split_tt, sep, iter, fork, res, ppc>>

\* what neither conversion touches
cvars == <<censored>>
mvars == <<raw, pending, ncalls, ret>>
hvars == <<build, hvalue, hbytes, hout, hpc>>
nvars == <<map, mtok, mfpc>>
ovars == <<pvars, cvars, mvars, hvars, nvars>>

vars == <<fvars, svars, ovars>>

(***************************************************************************)
(* Bounds of the model.                                                    *)
(***************************************************************************)
MaxLen == 3
NodeStart == 1
MaxEvents == 3
MaxN == 2
MaxItems == 4
MaxVal == 2

(***************************************************************************)
(* Texts and ranges.                                                       *)
(***************************************************************************)
Range(s, e) == [start |-> s, end |-> e]
RangeAt(s, l) == Range(s, s + l)
RangeLen(r) == r.end - r.start
RangeSub(r, off) == Range(r.start - off, r.end - off)

Tok(k, t) == [kind |-> k, text |-> t]

\* the characters of the model that take more than one byte: U+00E9 takes two
NonAscii == {"U+00E9"}
len_utf8(c) == IF c \in NonAscii THEN 2 ELSE 1

\* str::len: the length of a text in bytes
RECURSIVE str_len(_)
str_len(t) == IF t = <<>> THEN 0 ELSE len_utf8(Head(t)) + str_len(Tail(t))

\* str::is_char_boundary: byte index n is the start of a character or the end
is_char_boundary(t, n) == \E k \in 0..Len(t) : str_len(SubSeq(t, 1, k)) = n

\* &t[0..n] for a char boundary n
str_to(t, n) == SubSeq(t, 1, CHOOSE k \in 0..Len(t) : str_len(SubSeq(t, 1, k)) = n)

RECURSIVE TextLenUpTo(_, _)
TextLenUpTo(ts, n) == IF n = 0 THEN 0 ELSE TextLenUpTo(ts, n - 1) + str_len(ts[n].text)

(***************************************************************************)
(* SyntaxKind.                                                             *)
(***************************************************************************)
PunctKinds ==
    {"L_PAREN", "R_PAREN", "L_CURLY", "R_CURLY", "L_BRACK", "R_BRACK",
     "PLUS", "MINUS", "R_ANGLE", "EQ", "SEMICOLON", "UNDERSCORE", "THIN_ARROW"}
KeywordKinds == {"FN_KW", "TRUE_KW", "FALSE_KW"}
LiteralKinds == {"INT_NUMBER", "FLOAT_NUMBER", "STRING"}

is_punct(kind) == kind \in PunctKinds
is_keyword(kind) == kind \in KeywordKinds
is_literal(kind) == kind \in LiteralKinds

from_char(c) ==
    CASE c = "(" -> "L_PAREN"  [] c = ")" -> "R_PAREN"
      [] c = "{" -> "L_CURLY"  [] c = "}" -> "R_CURLY"
      [] c = "[" -> "L_BRACK"  [] c = "]" -> "R_BRACK"
      [] c = "+" -> "PLUS"     [] c = "-" -> "MINUS"
      [] c = ">" -> "R_ANGLE"  [] c = "=" -> "EQ"
      [] c = ";" -> "SEMICOLON" [] c = "_" -> "UNDERSCORE"
      [] OTHER -> "ERROR"

(***************************************************************************)
(* The tt data model.                                                      *)
(***************************************************************************)
Ident(t, s) == [tt |-> "Ident", text |-> t, span |-> s]
Literal(t, s) == [tt |-> "Literal", text |-> t, span |-> s]
Punct(c, sp, s) == [tt |-> "Punct", char |-> c, spacing |-> sp, span |-> s]
Subtree(k, o, c, ts) ==
    [tt |-> "Subtree", kind |-> k, open |-> o, close |-> c, token_trees |-> ts]

SpanData(r, a, c) == [range |-> r, anchor |-> a, ctx |-> c]
DUMMY == SpanData(Range(0, 0), "DUMMY", "DUMMY")
UNSPECIFIED == [kind |-> "Invisible", open |-> DUMMY, close |-> DUMMY]

Anchor == "A"
CtxDUMMY == "DUMMY"

(***************************************************************************)
(* The source tokens of the model.                                         *)
(***************************************************************************)
tA == Tok("IDENT", <<"a">>)
tB == Tok("IDENT", <<"b">>)
tLife == Tok("LIFETIME_IDENT", <<"'", "a", "b">>)
tInt == Tok("INT_NUMBER", <<"1">>)
tFn == Tok("FN_KW", <<"f", "n">>)
tUnder == Tok("UNDERSCORE", <<"_">>)
tWs == Tok("WHITESPACE", <<" ">>)
tPlus == Tok("PLUS", <<"+">>)
tMinus == Tok("MINUS", <<"-">>)
tArrow == Tok("THIN_ARROW", <<"-", ">">>)
tLParen == Tok("L_PAREN", <<"(">>)
tRParen == Tok("R_PAREN", <<")">>)
tLCurly == Tok("L_CURLY", <<"{">>)
tRCurly == Tok("R_CURLY", <<"}">>)
tLBrack == Tok("L_BRACK", <<"[">>)
tRBrack == Tok("R_BRACK", <<"]">>)
tDocOuter == Tok("COMMENT", <<"/", "/", "/", "h", "\"">>)
tDocInner == Tok("COMMENT", <<"/", "*", "!", "h", "*", "/">>)
tComment == Tok("COMMENT", <<"/", "/", "h">>)
\* a block doc comment that is not terminated
tDocOpen == Tok("COMMENT", <<"/", "*", "!">>)
\* unterminated ones whose body is the two bytes of U+00E9, and those two
\* bytes and an `a`
tDocWide == Tok("COMMENT", <<"/", "*", "!", "U+00E9">>)
tDocWideA == Tok("COMMENT", <<"/", "*", "!", "U+00E9", "a">>)
\* a line doc comment with a tab in it
tDocTab == Tok("COMMENT", <<"/", "/", "/", "a", "\t", "b">>)

AlphaSpacing == {tA, tPlus, tMinus, tArrow, tLife, tWs}
AlphaDelims == {tLParen, tRParen, tLCurly, tRCurly, tA, tPlus}
AlphaDoc == {tDocOuter, tDocInner, tComment, tDocOpen, tLBrack, tRBrack, tA}
AlphaLeaf == {tLife, tUnder, tInt, tFn, tLParen, tRParen}
AlphaWide == {tDocWide, tDocWideA, tDocTab, tA}
Alphabets == {AlphaSpacing, AlphaDelims, AlphaDoc, AlphaLeaf, AlphaWide}

\* the documented example, `a+-b`
Examples == {<<tA, tPlus, tMinus, tB>>}

SeqsUpTo(S, n) == UNION {[1..k -> S] : k \in 0..n}

Inputs == UNION {SeqsUpTo(A, MaxLen) : A \in Alphabets} \cup Examples

\* the lexer hands RawConverter one token per punctuation character
RawInput(ts) == \A i \in 1..Len(ts) : is_punct(ts[i].kind) => Len(ts[i].text) = 1

(***************************************************************************)
(* Token sources: RawConverter and Converter behind TokenConverter.        *)
(* A bumped token is [idx, pidx]: the source token toks[idx], and for a    *)
(* SynToken::Punct the offset pidx of its character (-1: SynToken::Ordinary*)
(* or a raw lexer index).                                                  *)
(***************************************************************************)
TokStart(i) == (IF backend = "tree" THEN NodeStart ELSE 0) + TextLenUpTo(toks, i - 1)
TokRange(i) == RangeAt(TokStart(i), str_len(toks[i].text))
NodeRange == Range(TokStart(1), TokStart(Len(toks) + 1))
contains_range(outer, r) == outer.start <= r.start /\ r.end <= outer.end

NoBump == [some |-> FALSE]

\* a variant of next_token_in that skips only the first token of a censored node
next_token_skips_one(censor, i) ==
    IF i <= Len(toks) /\ \E n \in censor : n.lo = i THEN i + 1 ELSE i

\* Converter::next_token with the preorder walk standing before token i: the
\* nodes that start at i are entered, outermost first, and a censored one is
\* skipped whole (skip_subtree); Len(toks) + 1 is None
RECURSIVE next_token_in(_, _)
next_token_in(censor, i) ==
    IF i > Len(toks) THEN i
    ELSE LET starting == {n \in censor : n.lo = i}
         IN IF starting = {} THEN i
            ELSE LET n == CHOOSE m \in starting : \A k \in starting : k.hi <= m.hi
                 IN next_token_in(censor, n.hi + 1)

next_token(i) == next_token_in(censored, i)

RawConverter_bump ==
    IF pos = Len(toks) + 1 THEN NoBump
    ELSE [some |-> TRUE, token |-> [idx |-> pos, pidx |-> -1],
          rel |-> TokRange(pos), abs |-> TokRange(pos),
          pos |-> pos + 1, po |-> punct_offset]

RawConverter_peek(p, po) ==
    IF p = Len(toks) + 1 THEN <<>> ELSE <<[idx |-> p, pidx |-> -1]>>

Converter_bump ==
    IF /\ punct_offset # <<>>
       /\ punct_offset[1].off + 1 < Len(toks[punct_offset[1].idx].text)
    THEN LET punct == punct_offset[1].idx
             offset == punct_offset[1].off + 1
             range == RangeAt(TokRange(punct).start + offset, 1)
         IN [some |-> TRUE, token |-> [idx |-> punct, pidx |-> offset],
             rel |-> RangeSub(range, anchor_offset), abs |-> range,
             pos |-> pos, po |-> <<[idx |-> punct, off |-> offset]>>]
    ELSE IF pos > Len(toks) THEN NoBump
    ELSE IF ~contains_range(NodeRange, TokRange(pos)) THEN NoBump
    ELSE IF is_punct(toks[pos].kind)
    THEN LET range == RangeAt(TokRange(pos).start, 1)
         IN [some |-> TRUE, token |-> [idx |-> pos, pidx |-> 0],
             rel |-> RangeSub(range, anchor_offset), abs |-> range,
             pos |-> next_token(pos + 1), po |-> <<[idx |-> pos, off |-> 0]>>]
    ELSE [some |-> TRUE, token |-> [idx |-> pos, pidx |-> -1],
          rel |-> RangeSub(TokRange(pos), anchor_offset), abs |-> TokRange(pos),
          pos |-> next_token(pos + 1), po |-> <<>>]

Converter_peek(p, po) ==
    IF po # <<>> /\ po[1].off + 1 < Len(toks[po[1].idx].text)
    THEN <<[idx |-> po[1].idx, pidx |-> po[1].off + 1]>>
    ELSE IF p > Len(toks) THEN <<>>
    ELSE IF ~contains_range(NodeRange, TokRange(p)) THEN <<>>
    ELSE IF is_punct(toks[p].kind) THEN <<[idx |-> p, pidx |-> 0]>>
    ELSE <<[idx |-> p, pidx |-> -1]>>

bump == IF backend = "raw" THEN RawConverter_bump ELSE Converter_bump
peek(p, po) == IF backend = "raw" THEN RawConverter_peek(p, po) ELSE Converter_peek(p, po)

\* SrcToken::to_char: <<>> is None
to_char(token) ==
    IF backend = "raw"
    THEN (IF toks[token.idx].text = <<>> THEN <<>> ELSE <<toks[token.idx].text[1]>>)
    ELSE IF token.pidx = -1 THEN <<>>
    ELSE IF token.pidx + 1 <= Len(toks[token.idx].text)
         THEN <<toks[token.idx].text[token.pidx + 1]>> ELSE <<>>

to_text(token) == toks[token.idx].text

kind_of(token) ==
    IF backend = "raw" \/ token.pidx = -1 THEN toks[token.idx].kind
    ELSE from_char(to_char(token)[1])

\* the supplied map: a span for every range ("all") or for none
MapSpan(range) == SpanData(range, "M", "CTX")
TokenMap_span_for_range(range) == IF mapMode = "all" THEN <<MapSpan(range)>> ELSE <<>>
\* a variant of RawConverter::span_for that answers as a span map would
RawConverter_span_for_mapped(range) == <<MapSpan(range)>>

RawConverter_span_for(range) == <<>>
Converter_span_for(range) == TokenMap_span_for_range(range)
span_for(range) ==
    IF backend = "raw" THEN RawConverter_span_for(range) ELSE Converter_span_for(range)

unwrap_or(opt, default) == IF opt = <<>> THEN default ELSE opt[1]

mk_dummy_span(rel_range) == SpanData(rel_range, Anchor, CtxDUMMY)

SingleTokenOps ==
    {"EQ", "L_ANGLE", "R_ANGLE", "BANG", "AMP", "PIPE", "TILDE", "AT", "DOT", "COMMA",
     "SEMICOLON", "COLON", "POUND", "DOLLAR", "QUESTION", "PLUS", "MINUS", "STAR",
     "SLASH", "PERCENT", "CARET", "LIFETIME_IDENT"}

\* a variant of is_single_token_op: the lifetime kind is left out
is_single_token_op_no_lifetime(kind) == kind \in SingleTokenOps \ {"LIFETIME_IDENT"}

is_single_token_op(kind) == kind \in SingleTokenOps

(***************************************************************************)
(* Doc comments.                                                           *)
(***************************************************************************)
IsPrefix(p, t) == Len(p) <= Len(t) /\ SubSeq(t, 1, Len(p)) = p

\* ast::Comment::kind and prefix (CommentKind::from_text): longest prefixes first
CommentPrefixes ==
    << [prefix |-> <<"/", "*", "*", "/">>, shape |-> "Block", doc |-> "None"],
       [prefix |-> <<"/", "*", "*", "*">>, shape |-> "Block", doc |-> "None"],
       [prefix |-> <<"/", "/", "/", "/">>, shape |-> "Line", doc |-> "None"],
       [prefix |-> <<"/", "/", "/">>, shape |-> "Line", doc |-> "Outer"],
       [prefix |-> <<"/", "/", "!">>, shape |-> "Line", doc |-> "Inner"],
       [prefix |-> <<"/", "*", "*">>, shape |-> "Block", doc |-> "Outer"],
       [prefix |-> <<"/", "*", "!">>, shape |-> "Block", doc |-> "Inner"],
       [prefix |-> <<"/", "/">>, shape |-> "Line", doc |-> "None"],
       [prefix |-> <<"/", "*">>, shape |-> "Block", doc |-> "None"] >>

CommentKind(text) ==
    LET hits == {i \in 1..Len(CommentPrefixes) : IsPrefix(CommentPrefixes[i].prefix, text)}
        first == CHOOSE i \in hits : \A j \in hits : i <= j
    IN CommentPrefixes[first]

\* a block comment without its closing `*/`: the lexer reports it as an error
UnterminatedBlock(tok) ==
    /\ tok.kind = "COMMENT" /\ CommentKind(tok.text).shape = "Block"
    /\ ~(Len(tok.text) >= 4 /\ SubSeq(tok.text, Len(tok.text) - 1, Len(tok.text)) = <<"*", "/">>)

\* char::escape_debug on the characters the model's comments hold: the
\* quotes, the backslash, tab, line feed and carriage return get a backslash
\* escape, every other character of the model is printable and stays
escape_debug_char(c) ==
    CASE c \in {"\"", "\\", "'"} -> <<"\\", c>>
      [] c = "\t" -> <<"\\", "t">>
      [] c = "\n" -> <<"\\", "n">>
      [] c = "\r" -> <<"\\", "r">>
      [] OTHER -> <<c>>

\* str::escape_debug
RECURSIVE escape_debug(_)
escape_debug(t) ==
    IF t = <<>> THEN <<>>
    ELSE escape_debug_char(Head(t)) \o escape_debug(Tail(t))

\* [panic, text].  The lengths are byte lengths: `text.len() - 2` underflows,
\* and the slice fails, when fewer than two bytes follow the prefix of a block
\* comment, and the slice fails when the byte two before the end is inside a
\* character.  A prefix holds single-byte characters only.
doc_comment_text(text) ==
    LET k == CommentKind(text)
        prefix_len == str_len(k.prefix)
        t1 == SubSeq(text, prefix_len + 1, Len(text))
        end == str_len(t1) - 2
    IN IF k.shape = "Block" /\ (end < 0 \/ ~is_char_boundary(t1, end))
       THEN [panic |-> TRUE, text |-> <<>>]
       ELSE LET t2 == IF k.shape = "Block" THEN str_to(t1, end) ELSE t1
            IN [panic |-> FALSE, text |-> <<"\"">> \o escape_debug(t2) \o <<"\"">>]

\* [panic, value]: value is <<>> for None and <<v>> for Some(v), v being the
\* vector of token trees
convert_doc_comment(tok, span) ==
    IF tok.kind # "COMMENT" THEN [panic |-> FALSE, value |-> <<>>]
    ELSE LET doc == CommentKind(tok.text).doc
             text == doc_comment_text(tok.text)
             mk_ident(s) == Ident(s, span)
             mk_punct(c) == Punct(c, "Alone", span)
             mk_doc_literal == Literal(text.text, span)
             meta_tkns == <<mk_ident(<<"d", "o", "c">>), mk_punct("="), mk_doc_literal>>
             attr == Subtree("Bracket", span, span, meta_tkns)
         IN IF doc = "None" THEN [panic |-> FALSE, value |-> <<>>]
            ELSE IF text.panic THEN [panic |-> TRUE, value |-> <<>>]
            ELSE IF doc = "Inner"
            THEN [panic |-> FALSE, value |-> << <<mk_punct("#"), mk_punct("!"), attr>> >>]
            ELSE [panic |-> FALSE, value |-> << <<mk_punct("#"), attr>> >>]

(***************************************************************************)
(* convert_tokens.                                                         *)
(***************************************************************************)
Top(stk) == stk[Len(stk)]
Extend(stk, trees) == [stk EXCEPT ![Len(stk)].token_trees = @ \o trees]

\* a variant of expected_closer: every visible frame expects `)`
expected_closer_paren(delim_kind) ==
    IF delim_kind \in {"Parenthesis", "Brace", "Bracket"} THEN <<"R_PAREN">> ELSE <<>>

\* the closer a frame expects: None for the Invisible root
expected_closer(delim_kind) ==
    CASE delim_kind = "Parenthesis" -> <<"R_PAREN">>
      [] delim_kind = "Brace" -> <<"R_CURLY">>
      [] delim_kind = "Bracket" -> <<"R_BRACK">>
      [] OTHER -> <<>>

opener_delim(kind) ==
    CASE kind = "L_PAREN" -> <<"Parenthesis">>
      [] kind = "L_CURLY" -> <<"Brace">>
      [] kind = "L_BRACK" -> <<"Bracket">>
      [] OTHER -> <<>>

\* stack.pop() gives None on the last frame, and the closer is then dropped
\* a variant of close_subtree: the popped subtree is not handed to its parent
close_subtree_dropped(stk, span) ==
    IF Len(stk) > 1 THEN SubSeq(stk, 1, Len(stk) - 1) ELSE stk

close_subtree(stk, span) ==
    IF Len(stk) > 1
    THEN Extend(SubSeq(stk, 1, Len(stk) - 1), <<[Top(stk) EXCEPT !.close = span]>>)
    ELSE stk

open_subtree(stk, kind, open, close) == Append(stk, Subtree(kind, open, close, <<>>))

punct_spacing(next) ==
    IF next # <<>> /\ is_single_token_op(kind_of(next[1])) THEN "Joint" ELSE "Alone"

lifetime_leaves(b) ==
    LET char_unit == 1
        r1 == RangeAt(b.rel.start, char_unit)
        r2 == RangeAt(b.rel.start + char_unit, RangeLen(b.rel) - char_unit)
        text == to_text(b.token)
    IN << Punct("'", "Joint", unwrap_or(span_for(b.abs), SpanData(r1, Anchor, CtxDUMMY))),
          Ident(SubSeq(text, 2, Len(text)),
                unwrap_or(span_for(b.abs), SpanData(r2, Anchor, CtxDUMMY))) >>

\* the leaves of the last arm of the match: <<>> for a token that is skipped
leaf_of(b) ==
    LET kind == kind_of(b.token)
        span == unwrap_or(span_for(b.abs), mk_dummy_span(b.rel))
    IN CASE kind \in {"TRUE_KW", "FALSE_KW", "IDENT", "UNDERSCORE"} ->
                <<Ident(to_text(b.token), span)>>
         [] kind \notin {"TRUE_KW", "FALSE_KW", "IDENT", "UNDERSCORE"} /\ is_keyword(kind) ->
                <<Ident(to_text(b.token), span)>>
         [] is_literal(kind) -> <<Literal(to_text(b.token), span)>>
         [] kind = "LIFETIME_IDENT" -> lifetime_leaves(b)
         [] OTHER -> <<>>

\* "Token from lexer must be single char", or the doc comment's text panics
token_panics(b) ==
    LET kind == kind_of(b.token)
    IN IF kind = "COMMENT"
       THEN convert_doc_comment(toks[b.token.idx], DUMMY).panic
       ELSE /\ is_punct(kind) /\ kind # "UNDERSCORE"
            /\ expected_closer(Top(stack).kind) # <<kind>>
            /\ opener_delim(kind) = <<>>
            /\ to_char(b.token) = <<>>

\* one pass of the main loop over the bumped token b: the stack after it
convert_token(stk, b) ==
    LET kind == kind_of(b.token)
        span == unwrap_or(span_for(b.abs), mk_dummy_span(b.rel))
    IN IF kind = "COMMENT"
       THEN LET tokens == convert_doc_comment(toks[b.token.idx], span).value
            IN IF tokens = <<>> THEN stk ELSE Extend(stk, tokens[1])
       ELSE IF is_punct(kind) /\ kind # "UNDERSCORE"
       THEN IF expected_closer(Top(stk).kind) = <<kind>>
            THEN close_subtree(stk, span)
            ELSE IF opener_delim(kind) # <<>>
            THEN open_subtree(stk, opener_delim(kind)[1], span, mk_dummy_span(b.rel))
            ELSE Extend(stk, <<Punct(to_char(b.token)[1],
                                     punct_spacing(peek(b.pos, b.po)), span)>>)
       ELSE Extend(stk, leaf_of(b))

open_char(delim_kind) ==
    CASE delim_kind = "Parenthesis" -> "("
      [] delim_kind = "Brace" -> "{"
      [] delim_kind = "Bracket" -> "["
      [] OTHER -> "$"

\* a variant of merge_frame: the frame's children come before its opening character
merge_frame_children_first(stk) ==
    LET entry == Top(stk)
        leaf == Punct(open_char(entry.kind), "Alone", entry.open)
    IN Extend(SubSeq(stk, 1, Len(stk) - 1), entry.token_trees \o <<leaf>>)

\* one pass of the recovery loop: the popped frame is merged into its parent
merge_frame(stk) ==
    LET entry == Top(stk)
        leaf == Punct(open_char(entry.kind), "Alone", entry.open)
    IN Extend(SubSeq(stk, 1, Len(stk) - 1), <<leaf>> \o entry.token_trees)

\* a variant of into_result: the root frame is returned as it is
into_result_root(subtree) == subtree

\* stack.into_last() and the collapse of a root holding one subtree
into_result(subtree) ==
    IF Len(subtree.token_trees) = 1 /\ subtree.token_trees[1].tt = "Subtree"
    THEN subtree.token_trees[1]
    ELSE subtree

\* a variant of the entry frame with a visible delimiter
Entry_parenthesized == Subtree("Parenthesis", UNSPECIFIED.open, UNSPECIFIED.close, <<>>)

Entry == Subtree(UNSPECIFIED.kind, UNSPECIFIED.open, UNSPECIFIED.close, <<>>)

(***************************************************************************)
(* The forward conversion as a state machine.                              *)
(***************************************************************************)
\* a variant of parse_to_token_tree: the lexer's errors are not looked at
parse_to_token_tree_unchecked ==
    /\ pc = "start" /\ backend = "raw"
    /\ pc' = "loop" /\ stack' = <<Entry>>
    /\ UNCHANGED <<backend, toks, lexErrors, mapMode, anchor_offset, pos, punct_offset,
                   result, svars, ovars>>

parse_to_token_tree ==
    /\ pc = "start" /\ backend = "raw"
    /\ IF lexErrors
       THEN pc' = "done" /\ stack' = stack
       ELSE pc' = "loop" /\ stack' = <<Entry>>
    /\ UNCHANGED <<backend, toks, lexErrors, mapMode, anchor_offset, pos, punct_offset,
                   result, svars, ovars>>

\* a variant of syntax_node_to_token_tree: the anchor offset is not asserted
syntax_node_to_token_tree_unasserted ==
    /\ pc = "start" /\ backend = "tree"
    /\ pc' = "loop" /\ stack' = <<Entry>>
    /\ UNCHANGED <<backend, toks, lexErrors, mapMode, anchor_offset, pos, punct_offset,
                   result, svars, ovars>>

syntax_node_to_token_tree ==
    /\ pc = "start" /\ backend = "tree"
    /\ IF anchor_offset <= NodeRange.start
       THEN pc' = "loop" /\ stack' = <<Entry>>
       ELSE pc' = "panic" /\ stack' = stack
    /\ UNCHANGED <<backend, toks, lexErrors, mapMode, anchor_offset, pos, punct_offset,
                   result, svars, ovars>>

syntax_node_to_token_tree_censored(censor) ==
    /\ pc = "start" /\ backend = "tree"
    /\ censored' = censor
    /\ pos' = next_token_in(censor, 1)
    /\ IF anchor_offset <= NodeRange.start
       THEN pc' = "loop" /\ stack' = <<Entry>>
       ELSE pc' = "panic" /\ stack' = stack
    /\ UNCHANGED <<backend, toks, lexErrors, mapMode, anchor_offset, punct_offset,
                   result, svars, pvars, mvars, hvars, nvars>>

convert_tokens_loop ==
    /\ pc = "loop" /\ bump.some
    /\ pos' = bump.pos
    /\ punct_offset' = bump.po
    /\ IF token_panics(bump)
       THEN pc' = "panic" /\ stack' = stack
       ELSE pc' = "loop" /\ stack' = convert_token(stack, bump)
    /\ UNCHANGED <<backend, toks, lexErrors, mapMode, anchor_offset, result, svars, ovars>>

convert_tokens_eof ==
    /\ pc = "loop" /\ ~bump.some
    /\ pc' = "recover"
    /\ UNCHANGED <<backend, toks, lexErrors, mapMode, anchor_offset, pos, punct_offset,
                   stack, result, svars, ovars>>

\* a variant of the recovery loop: the frame is merged but stays on the stack
convert_tokens_recover_keeps_frame ==
    /\ pc = "recover" /\ Len(stack) > 1
    /\ stack' = Append(merge_frame(stack), Top(stack))
    /\ UNCHANGED <<backend, toks, lexErrors, mapMode, anchor_offset, pos, punct_offset,
                   pc, result, svars, ovars>>

convert_tokens_recover ==
    /\ pc = "recover" /\ Len(stack) > 1
    /\ stack' = merge_frame(stack)
    /\ UNCHANGED <<backend, toks, lexErrors, mapMode, anchor_offset, pos, punct_offset,
                   pc, result, svars, ovars>>

convert_tokens_return ==
    /\ pc = "recover" /\ Len(stack) = 1
    /\ result' = <<into_result(stack[1])>>
    /\ pc' = "done"
    /\ UNCHANGED <<backend, toks, lexErrors, mapMode, anchor_offset, pos, punct_offset,
                   stack, svars, ovars>>

(***************************************************************************)
(* anymap::Map.  RawMap is a HashMap from TypeId to a boxed value, hashed  *)
(* by TypeIdHasher: the model keeps, per hash, the pairs in insertion      *)
(* order, and looks a key up by equality within its hash.                  *)
(***************************************************************************)
Types == {"A", "B", "C"}
Values == 1..MaxVal

TypeId_of(T) == T
\* the 64 bits a TypeId writes to its hasher; those of A and C coincide
TypeIdBits(id) == CASE id = "A" -> 1 [] id = "B" -> 2 [] id = "C" -> 1
\* TypeIdHasher: write keeps the 64 bits it is given, finish returns them
TypeIdHasher_hash(id) == TypeIdBits(id)
Hashes == {TypeIdHasher_hash(TypeId_of(T)) : T \in Types}

RawMap_with_hasher == [h \in Hashes |-> <<>>]

HashMap_get(m, k) ==
    LET b == m[TypeIdHasher_hash(k)]
        hits == {i \in 1..Len(b) : b[i].key = k}
    IN IF hits = {} THEN <<>>
       ELSE <<b[CHOOSE i \in hits : \A j \in hits : i <= j].value>>

HashMap_entry(m, k) ==
    IF HashMap_get(m, k) = <<>> THEN [e |-> "Vacant", key |-> k]
    ELSE [e |-> "Occupied", key |-> k]

OccupiedEntry_into_mut(m, e) == HashMap_get(m, e.key)[1]

\* the inner entry's insert: the map with the value stored under the entry's key
RawVacantEntry_insert(m, e, value) ==
    [m EXCEPT ![TypeIdHasher_hash(e.key)] = Append(@, [key |-> e.key, value |-> value])]

\* a variant of or_insert_with: the default is called and stored on any entry
or_insert_with_always(m, e, default) ==
    [raw |-> RawVacantEntry_insert(m, e, default), called |-> 1, value |-> default]

\* Entry::or_insert_with; default is the value the default function returns
or_insert_with(m, e, default) ==
    IF e.e = "Occupied"
    THEN [raw |-> m, called |-> 0, value |-> OccupiedEntry_into_mut(m, e)]
    ELSE [raw |-> RawVacantEntry_insert(m, e, default), called |-> 1, value |-> default]

\* Map::new, with nothing asked of it yet
Map_new ==
    /\ raw = RawMap_with_hasher /\ pending = <<>> /\ ncalls = 0
    /\ ret = [op |-> "new"]

Map_get(T) ==
    /\ pending = <<>>
    /\ ret' = [op |-> "get", type |-> T, value |-> HashMap_get(raw, TypeId_of(T))]
    /\ UNCHANGED <<raw, pending, ncalls, fvars, svars, pvars, cvars, hvars, nvars>>

Map_entry(T) ==
    /\ pending = <<>>
    /\ pending' = <<HashMap_entry(raw, TypeId_of(T))>>
    /\ ret' = [op |-> "entry", type |-> T]
    /\ UNCHANGED <<raw, ncalls, fvars, svars, pvars, cvars, hvars, nvars>>

Entry_or_insert_with(default) ==
    /\ pending # <<>>
    /\ LET r == or_insert_with(raw, pending[1], default)
       IN /\ raw' = r.raw
          /\ ncalls' = ncalls + r.called
          /\ ret' = [op |-> "or_insert_with", type |-> pending[1].key,
                     entry |-> pending[1].e, value |-> r.value]
    /\ pending' = <<>>
    /\ UNCHANGED <<fvars, svars, pvars, cvars, hvars, nvars>>

\* VacantEntry::insert called on the Vacant variant of a matched Entry: the
\* value is stored and returned, and no default function is involved
VacantEntry_insert(value) ==
    /\ pending # <<>> /\ pending[1].e = "Vacant"
    /\ raw' = RawVacantEntry_insert(raw, pending[1], value)
    /\ ret' = [op |-> "insert", type |-> pending[1].key,
               entry |-> pending[1].e, value |-> value]
    /\ pending' = <<>>
    /\ UNCHANGED <<ncalls, fvars, svars, pvars, cvars, hvars, nvars>>

(***************************************************************************)
(* anymap::TypeIdHasher.  A u64 is kept as its eight bytes, most           *)
(* significant first; the bytes a write receives are in memory order.      *)
(***************************************************************************)
Zero64 == [i \in 1..8 |-> 0]
Reverse(b) == [i \in 1..Len(b) |-> b[Len(b) + 1 - i]]
\* u64::from_ne_bytes on the build's target
from_ne_bytes(array) == IF build.endian = "little" THEN Reverse(array) ELSE array

Builds == [profile : {"debug", "release"}, endian : {"little", "big"}]

\* #[derive(Default)]: a hasher nothing was written to
TypeIdHasher_default ==
    /\ hvalue = Zero64 /\ hbytes = <<>> /\ hout = <<>> /\ hpc = "run"

TypeIdHasher_write(bytes) ==
    /\ hpc = "run"
    /\ hbytes' = <<bytes>>
    /\ IF build.profile = "debug" /\ Len(bytes) # 8
       THEN hpc' = "panic" /\ hvalue' = hvalue
       ELSE /\ hpc' = "run"
            /\ hvalue' = IF Len(bytes) = 8 THEN from_ne_bytes(bytes) ELSE hvalue
    /\ UNCHANGED <<build, hout, fvars, svars, pvars, cvars, mvars, nvars>>

TypeIdHasher_finish ==
    /\ hpc = "run"
    /\ hout' = <<hvalue>>
    /\ UNCHANGED <<build, hvalue, hbytes, hpc, fvars, svars, pvars, cvars, mvars, nvars>>

AnchorOffsets == {0, NodeStart, NodeStart + 1}

\* map_from_syntax_node has not been called
MapFromIdle == map = <<>> /\ mtok = 0 /\ mfpc = "idle"

\* parse_exprs_with_sep has not been called
SplitIdle ==
    /\ split_tt = <<>> /\ sep = "," /\ iter = 0 /\ fork = 0 /\ res = <<>> /\ ppc = "idle"

\* the reverse conversion has not been asked for
SinkIdle ==
    /\ ents = <<>> /\ cursor = 0 /\ buf = <<>> /\ text_pos = 0
    /\ inner = <<>> /\ token_map = <<>> /\ events = 0 /\ spc = "idle"
    /\ event = [ev |-> "None"]

Init ==
    /\ SinkIdle /\ SplitIdle
    /\ Map_new /\ TypeIdHasher_default /\ MapFromIdle /\ build = [profile |-> "release", endian |-> "little"]
    /\ censored = {}
    /\ toks \in Inputs
    /\ backend \in {"raw", "tree"}
    /\ lexErrors \in BOOLEAN
    /\ mapMode \in {"none", "all"}
    /\ anchor_offset \in AnchorOffsets
    /\ backend = "raw" => RawInput(toks) /\ mapMode = "none" /\ anchor_offset = 0
    /\ (backend = "raw" /\ \E i \in 1..Len(toks) : UnterminatedBlock(toks[i])) => lexErrors
    /\ backend = "tree" => ~lexErrors
    /\ pos = 1
    /\ punct_offset = <<>>
    /\ stack = <<>>
    /\ pc = "start"
    /\ result = <<>>

Next ==
    \/ parse_to_token_tree
    \/ syntax_node_to_token_tree
    \/ convert_tokens_loop
    \/ convert_tokens_eof
    \/ convert_tokens_recover
    \/ convert_tokens_return

Spec == Init /\ [][Next]_vars

(***************************************************************************)
(* The conversion with censored nodes.  A syntax node is the run [lo, hi]  *)
(* of the tokens under it; the nodes of one tree nest or lie apart.        *)
(***************************************************************************)
AlphaCensor == {tA, tArrow, tLParen, tRParen, tDocOuter, tLife}
SyntaxNodes == {n \in [lo : 1..Len(toks), hi : 1..Len(toks)] : n.lo <= n.hi}
Apart(m, n) == m.hi < n.lo \/ n.hi < m.lo
Within(m, n) == n.lo <= m.lo /\ m.hi <= n.hi
\* the sets of at most two nodes
CensorSets ==
    {{}} \cup {{n} : n \in SyntaxNodes}
         \cup {{p[1], p[2]} : p \in {q \in SyntaxNodes \X SyntaxNodes :
                                          Apart(q[1], q[2]) \/ Within(q[1], q[2])}}

InitCensor ==
    /\ SinkIdle /\ SplitIdle
    /\ Map_new /\ TypeIdHasher_default /\ MapFromIdle /\ build = [profile |-> "release", endian |-> "little"]
    /\ censored = {}
    /\ toks \in SeqsUpTo(AlphaCensor, MaxLen)
    /\ backend = "tree" /\ lexErrors = FALSE
    /\ mapMode \in {"none", "all"}
    /\ anchor_offset = 0
    /\ pos = 1 /\ punct_offset = <<>> /\ stack = <<>> /\ pc = "start" /\ result = <<>>

NextCensor ==
    \/ /\ pc = "start"
       /\ \E censor \in CensorSets : syntax_node_to_token_tree_censored(censor)
    \/ convert_tokens_loop
    \/ convert_tokens_eof
    \/ convert_tokens_recover
    \/ convert_tokens_return

SpecCensor == InitCensor /\ [][NextCensor]_vars

(***************************************************************************)
(* tt::buffer: a TokenBuffer is kept flat.  A leaf is one entry, a subtree *)
(* is a Subtree entry, its children's entries and an End entry; the buffer *)
(* ends with the End(None) entry, here "Eof".                              *)
(***************************************************************************)
RECURSIVE FlatEntries(_, _)
FlatEntries(trees, base) ==
    IF trees = <<>> THEN <<>>
    ELSE LET t == Head(trees)
         IN IF t.tt = "Subtree"
            THEN LET kids == FlatEntries(t.token_trees, base + 1)
                     endIdx == base + Len(kids) + 2
                 IN <<[e |-> "Subtree", kind |-> t.kind, open |-> t.open,
                       close |-> t.close, endIdx |-> endIdx]>>
                    \o kids
                    \o <<[e |-> "End", parent |-> base + 1]>>
                    \o FlatEntries(Tail(trees), endIdx)
            ELSE <<[e |-> "Leaf", leaf |-> t]>> \o FlatEntries(Tail(trees), base + 1)

TokenBuffer_from_tokens(token_trees) == FlatEntries(token_trees, 0) \o <<[e |-> "Eof"]>>
TokenBuffer_from_subtree(subtree) == FlatEntries(<<subtree>>, 0) \o <<[e |-> "Eof"]>>

Cursor_eof(c) == ents[c].e = "Eof"
\* TokenTreeRef::Leaf or TokenTreeRef::Subtree as <<entry>>, None as <<>>
Cursor_token_tree(c) == IF ents[c].e \in {"Leaf", "Subtree"} THEN <<ents[c]>> ELSE <<>>
\* the parent subtree when the cursor is at the end of a subtree
Cursor_end(c) == IF ents[c].e = "End" THEN <<ents[ents[c].parent]>> ELSE <<>>
Cursor_subtree(c) == IF ents[c].e = "Subtree" THEN <<c + 1>> ELSE <<>>
Cursor_bump(c) ==
    CASE ents[c].e = "Eof" -> c
      [] ents[c].e = "Subtree" -> ents[c].endIdx + 1
      [] OTHER -> c + 1

IsPunctLeaf(ref) == ref # <<>> /\ ref[1].e = "Leaf" /\ ref[1].leaf.tt = "Punct"

(***************************************************************************)
(* TtTreeSink.                                                             *)
(***************************************************************************)
\* a variant of is_ascii: every character passes for a single byte
is_ascii_any(c) == TRUE

is_ascii(c) == c \notin NonAscii

\* a table that renders a closing delimiter as the opening one
delim_to_str_opening(d, closing) ==
    IF d = "Invisible" THEN <<>>
    ELSE <<CASE d = "Parenthesis" -> <<"(">>
             [] d = "Brace" -> <<"{">>
             [] d = "Bracket" -> <<"[">>>>

delim_to_str(d, closing) ==
    IF d = "Invisible" THEN <<>>
    ELSE LET texts == CASE d = "Parenthesis" -> <<"(", ")">>
                        [] d = "Brace" -> <<"{", "}">>
                        [] d = "Bracket" -> <<"[", "]">>
             idx == IF closing THEN 1 ELSE 0
         IN <<SubSeq(texts, idx + 1, Len(texts) - (1 - idx))>>

\* the builder calls
StartNode(kind) == [op |-> "start_node", kind |-> kind]
FinishNode == [op |-> "finish_node"]
BToken(kind, text) == [op |-> "token", kind |-> kind, text |-> text]
BError(msg, at) == [op |-> "error", msg |-> msg, at |-> at]

(***************************************************************************)
(* The inner `loop` of TtTreeSink::token: the text of one unit.  st is     *)
(* [cursor, last, buf, text_pos, token_map, panic]; the result adds text.  *)
(***************************************************************************)
RECURSIVE token_text(_)
token_text(st) ==
    LET e == ents[st.cursor]
        none == [st EXCEPT !.panic = TRUE] @@ [text |-> <<>>]
    IN CASE e.e = "Leaf" ->
              IF e.leaf.tt = "Punct" /\ ~is_ascii(e.leaf.char) THEN none
              ELSE LET text == IF e.leaf.tt = "Punct" THEN <<e.leaf.char>> ELSE e.leaf.text
                       range == RangeAt(st.text_pos, str_len(text))
                   IN [st EXCEPT !.token_map = Append(@, [range |-> range,
                                                          span |-> e.leaf.span]),
                                 !.cursor = Cursor_bump(st.cursor)]
                      @@ [text |-> text]
         [] e.e = "Subtree" ->
              LET down == [st EXCEPT !.cursor = Cursor_subtree(st.cursor)[1]]
                  it == delim_to_str(e.kind, FALSE)
              IN IF it # <<>>
                 THEN [down EXCEPT !.token_map =
                          Append(@, [range |-> RangeAt(st.text_pos, str_len(it[1])),
                                     span |-> e.open])]
                      @@ [text |-> it[1]]
                 ELSE token_text(down)
         [] e.e = "End" ->
              LET parent == Cursor_end(st.cursor)[1]
                  up == [st EXCEPT !.cursor = Cursor_bump(st.cursor)]
                  it == delim_to_str(parent.kind, TRUE)
              IN IF it # <<>>
                 THEN [up EXCEPT !.token_map =
                          Append(@, [range |-> RangeAt(st.text_pos, str_len(it[1])),
                                     span |-> parent.close])]
                      @@ [text |-> it[1]]
                 ELSE token_text(up)
         \* self.cursor.end().unwrap() at the end of the buffer
         [] OTHER -> none

\* a variant of the loop that leaves text_pos where it was
RECURSIVE token_loop_in_place(_, _)
token_loop_in_place(st, n) ==
    IF n = 0 \/ st.panic THEN st
    ELSE IF Cursor_eof(st.cursor) THEN st
    ELSE LET r == token_text([st EXCEPT !.last = st.cursor])
         IN IF r.panic THEN [st EXCEPT !.panic = TRUE]
            ELSE token_loop_in_place([cursor |-> r.cursor, last |-> r.last,
                                      buf |-> r.buf \o r.text,
                                      text_pos |-> r.text_pos,
                                      token_map |-> r.token_map, panic |-> FALSE], n - 1)

\* the `for _ in 0..n_tokens` loop
RECURSIVE token_loop(_, _)
token_loop(st, n) ==
    IF n = 0 \/ st.panic THEN st
    ELSE IF Cursor_eof(st.cursor) THEN st
    ELSE LET r == token_text([st EXCEPT !.last = st.cursor])
         IN IF r.panic THEN [st EXCEPT !.panic = TRUE]
            ELSE token_loop([cursor |-> r.cursor, last |-> r.last,
                             buf |-> r.buf \o r.text,
                             text_pos |-> r.text_pos + str_len(r.text),
                             token_map |-> r.token_map, panic |-> FALSE], n - 1)

\* a sink that believes the parser's count for a lifetime
lifetime_n_tokens_as_reported(kind, n_tokens) == n_tokens

lifetime_n_tokens(kind, n_tokens) == IF kind = "LIFETIME_IDENT" THEN 2 ELSE n_tokens

\* a variant of needs_whitespace: the next Punct must be Alone as well
needs_whitespace_both_alone(last) ==
    LET curr == Cursor_token_tree(last)
        next == Cursor_token_tree(Cursor_bump(last))
    IN /\ IsPunctLeaf(curr) /\ IsPunctLeaf(next)
       /\ curr[1].leaf.spacing = "Alone" /\ next[1].leaf.spacing = "Alone"
       /\ curr[1].leaf.char # ";"
       /\ next[1].leaf.char # "'"

\* "Add whitespace between adjoint puncts"
needs_whitespace(last) ==
    LET curr == Cursor_token_tree(last)
        next == Cursor_token_tree(Cursor_bump(last))
    IN /\ IsPunctLeaf(curr) /\ IsPunctLeaf(next)
       /\ curr[1].leaf.spacing = "Alone"
       /\ curr[1].leaf.char # ";"
       /\ next[1].leaf.char # "'"

SinkState ==
    [cursor |-> cursor, last |-> cursor, buf |-> buf, text_pos |-> text_pos,
     token_map |-> token_map, panic |-> FALSE]

TtTreeSink_token(kind, n_tokens) ==
    /\ spc = "run"
    /\ events' = events + 1
    /\ event' = [ev |-> "Token", kind |-> kind, n_input_tokens |-> n_tokens]
    /\ LET st == token_loop(SinkState, lifetime_n_tokens(kind, n_tokens))
       IN IF st.panic
          THEN /\ spc' = "panic"
               /\ UNCHANGED <<cursor, buf, text_pos, inner, token_map>>
          ELSE /\ spc' = "run"
               /\ cursor' = st.cursor
               /\ token_map' = st.token_map
               /\ buf' = <<>>
               /\ IF needs_whitespace(st.last)
                  THEN /\ inner' = inner \o <<BToken(kind, st.buf), BToken("WHITESPACE", <<" ">>)>>
                       /\ text_pos' = st.text_pos + 1
                  ELSE /\ inner' = Append(inner, BToken(kind, st.buf))
                       /\ text_pos' = st.text_pos
    /\ UNCHANGED <<ents, fvars, ovars>>

\* str::split_once('.'): <<>> when there is no `.`
split_once_dot(text) ==
    LET dots == {i \in 1..Len(text) : text[i] = "."}
    IN IF dots = {} THEN <<>>
       ELSE LET i == CHOOSE d \in dots : \A d2 \in dots : d <= d2
            IN <<[left |-> SubSeq(text, 1, i - 1), right |-> SubSeq(text, i + 1, Len(text))]>>

\* a variant of float_split that leaves the parser's extra scope open after
\* the right part
float_split_calls_keeps_scope(has_pseudo_dot) ==
    LET ref == Cursor_token_tree(cursor)
    IN IF ~(ref # <<>> /\ ref[1].e = "Leaf" /\ ref[1].leaf.tt = "Literal")
       THEN [panic |-> TRUE, calls |-> <<>>]
       ELSE LET parts == split_once_dot(ref[1].leaf.text)
            IN IF parts = <<>> THEN [panic |-> TRUE, calls |-> <<>>]
               ELSE LET left == parts[1].left
                        right == parts[1].right
                        head == <<StartNode("NAME_REF"), BToken("INT_NUMBER", left),
                                  FinishNode, FinishNode, BToken("DOT", <<".">>)>>
                    IN IF left = <<>> THEN [panic |-> TRUE, calls |-> <<>>]
                       ELSE IF has_pseudo_dot
                       THEN [panic |-> right # <<>>, calls |-> head]
                       ELSE [panic |-> right = <<>>,
                             calls |-> head \o <<StartNode("NAME_REF"),
                                                 BToken("INT_NUMBER", right),
                                                 FinishNode>>]

\* a variant of float_split that splits at the last `.` (str::rsplit_once)
float_split_calls_rsplit(has_pseudo_dot) ==
    LET ref == Cursor_token_tree(cursor)
        text == ref[1].leaf.text
        dots == {i \in 1..Len(text) : text[i] = "."}
        i == CHOOSE d \in dots : \A d2 \in dots : d >= d2
        left == SubSeq(text, 1, i - 1)
        right == SubSeq(text, i + 1, Len(text))
        head == <<StartNode("NAME_REF"), BToken("INT_NUMBER", left),
                  FinishNode, FinishNode, BToken("DOT", <<".">>)>>
    IN IF ~(ref # <<>> /\ ref[1].e = "Leaf" /\ ref[1].leaf.tt = "Literal")
       THEN [panic |-> TRUE, calls |-> <<>>]
       ELSE IF dots = {} \/ left = <<>> THEN [panic |-> TRUE, calls |-> <<>>]
       ELSE IF has_pseudo_dot THEN [panic |-> right # <<>>, calls |-> head]
       ELSE [panic |-> right = <<>>,
             calls |-> head \o <<StartNode("NAME_REF"), BToken("INT_NUMBER", right),
                                 FinishNode, FinishNode>>]

\* what float_split does: [panic, calls], the calls being those made on the builder
float_split_calls(has_pseudo_dot) ==
    LET ref == Cursor_token_tree(cursor)
    IN IF ~(ref # <<>> /\ ref[1].e = "Leaf" /\ ref[1].leaf.tt = "Literal")
       THEN [panic |-> TRUE, calls |-> <<>>]
       ELSE LET parts == split_once_dot(ref[1].leaf.text)
            IN IF parts = <<>> THEN [panic |-> TRUE, calls |-> <<>>]
               ELSE LET left == parts[1].left
                        right == parts[1].right
                        head == <<StartNode("NAME_REF"), BToken("INT_NUMBER", left),
                                  FinishNode, FinishNode, BToken("DOT", <<".">>)>>
                    IN IF left = <<>> THEN [panic |-> TRUE, calls |-> <<>>]
                       ELSE IF has_pseudo_dot
                       THEN [panic |-> right # <<>>, calls |-> head]
                       ELSE [panic |-> right = <<>>,
                             calls |-> head \o <<StartNode("NAME_REF"),
                                                 BToken("INT_NUMBER", right),
                                                 FinishNode, FinishNode>>]

TtTreeSink_float_split(has_pseudo_dot) ==
    /\ spc = "run"
    /\ events' = events + 1
    /\ event' = [ev |-> "FloatSplit", ends_in_dot |-> has_pseudo_dot]
    /\ LET r == float_split_calls(has_pseudo_dot)
       IN IF r.panic
          THEN spc' = "panic" /\ UNCHANGED <<cursor, inner>>
          ELSE /\ spc' = "run"
               /\ inner' = inner \o r.calls
               /\ cursor' = Cursor_bump(cursor)
    /\ UNCHANGED <<ents, buf, text_pos, token_map, fvars, ovars>>

TtTreeSink_start_node(kind) ==
    /\ spc = "run"
    /\ events' = events + 1
    /\ event' = [ev |-> "Enter", kind |-> kind]
    /\ inner' = Append(inner, StartNode(kind))
    /\ UNCHANGED <<ents, cursor, buf, text_pos, token_map, spc, fvars, ovars>>

TtTreeSink_finish_node ==
    /\ spc = "run"
    /\ events' = events + 1
    /\ event' = [ev |-> "Exit"]
    /\ inner' = Append(inner, FinishNode)
    /\ UNCHANGED <<ents, cursor, buf, text_pos, token_map, spc, fvars, ovars>>

TtTreeSink_error(error) ==
    /\ spc = "run"
    /\ events' = events + 1
    /\ event' = [ev |-> "Error", msg |-> error]
    /\ inner' = Append(inner, BError(error, text_pos))
    /\ UNCHANGED <<ents, cursor, buf, text_pos, token_map, spc, fvars, ovars>>

\* the parser's output is exhausted: token_map.shrink_to_fit(), inner.finish()
TtTreeSink_finish ==
    /\ spc = "run"
    /\ spc' = "done"
    /\ UNCHANGED <<ents, cursor, buf, text_pos, inner, token_map, events, event, fvars, ovars>>

\* a variant of token_tree_to_syntax_node that always takes the root's children
token_tree_to_syntax_node_children ==
    /\ spc = "idle" /\ pc = "done" /\ result # <<>>
    /\ ents' = TokenBuffer_from_tokens(result[1].token_trees)
    /\ cursor' = 1
    /\ buf' = <<>> /\ text_pos' = 0 /\ inner' = <<>> /\ token_map' = <<>>
    /\ spc' = "run"
    /\ UNCHANGED <<events, event, fvars, ovars>>

\* the head of token_tree_to_syntax_node: the buffer and the sink over it
token_tree_to_syntax_node ==
    /\ spc = "idle" /\ pc = "done" /\ result # <<>>
    /\ ents' = IF result[1].kind = "Invisible"
               THEN TokenBuffer_from_tokens(result[1].token_trees)
               ELSE TokenBuffer_from_subtree(result[1])
    /\ cursor' = 1
    /\ buf' = <<>> /\ text_pos' = 0 /\ inner' = <<>> /\ token_map' = <<>>
    /\ spc' = "run"
    /\ UNCHANGED <<events, event, fvars, ovars>>

(***************************************************************************)
(* The reverse conversion on its own: a token tree as a macro expansion    *)
(* may hand it over, and any parser events.                                *)
(***************************************************************************)
S(n) == SpanData(Range(n, n + 1), Anchor, CtxDUMMY)
Inv(trees) == Subtree("Invisible", DUMMY, DUMMY, trees)
pA(c, n) == Punct(c, "Alone", S(n))
pJ(c, n) == Punct(c, "Joint", S(n))
idA(n) == Ident(<<"a">>, S(n))
lit(t, n) == Literal(t, S(n))

SinkTrees ==
    { \* `'a + - a`
      Inv(<<pJ("'", 1), idA(2), pA("+", 3), pA("-", 4), idA(5)>>),
      \* `a . 0.1`
      Inv(<<idA(1), pA(".", 2), lit(<<"0", ".", "1">>, 3)>>),
      \* literals a float split may meet
      Inv(<<lit(<<"0", ".">>, 1), lit(<<"1", ".", "2", ".", "3">>, 2)>>),
      Inv(<<lit(<<".", "5">>, 1)>>),
      Inv(<<lit(<<"1">>, 1)>>),
      Inv(<<lit(<<"1", ".", "5">>, 1)>>),
      \* a root with a visible delimiter
      Subtree("Parenthesis", S(8), S(9), <<pJ("+", 1), pA("=", 2), pA(";", 3), pA("-", 4)>>),
      \* an invisible group, as a substituted fragment is
      Inv(<<Inv(<<pA("+", 1), pA("-", 2)>>), pA("-", 3)>>),
      \* a group between puncts, and a lifetime after a punct
      Inv(<<pA("+", 1), Subtree("Brace", S(8), S(9), <<pA("-", 2)>>), pA("+", 3),
            pJ("'", 4), idA(5)>>),
      \* a quote with no name after it
      Inv(<<idA(1), pJ("'", 2)>>),
      \* a character outside ASCII
      Inv(<<pA("U+00E9", 1), idA(2)>>),
      Inv(<<idA(1), pA("U+00E9", 2)>>),
      \* `+ -=`: an Alone punct before a Joint one
      Inv(<<pA("+", 1), pJ("-", 2), pA("=", 3)>>),
      \* `(a)` with an invisible group around the `a`
      Subtree("Parenthesis", S(8), S(9), <<Inv(<<idA(1)>>)>>),
      Inv(<<>>) }

TokenKinds == {"IDENT", "LIFETIME_IDENT"}

InitSink ==
    /\ SinkIdle /\ SplitIdle
    /\ Map_new /\ TypeIdHasher_default /\ MapFromIdle /\ build = [profile |-> "release", endian |-> "little"]
    /\ censored = {}
    /\ toks = <<>> /\ backend = "tree" /\ lexErrors = FALSE /\ mapMode = "none"
    /\ anchor_offset = 0 /\ pos = 1 /\ punct_offset = <<>> /\ stack = <<>>
    /\ pc = "done"
    /\ result \in {<<t>> : t \in SinkTrees}

\* any event may come, MaxEvents of them at most
NextSink ==
    \/ token_tree_to_syntax_node
    \/ /\ events < MaxEvents
       /\ \/ \E kind \in TokenKinds, n \in 1..MaxN : TtTreeSink_token(kind, n)
          \/ \E has_pseudo_dot \in BOOLEAN : TtTreeSink_float_split(has_pseudo_dot)
          \/ TtTreeSink_start_node("NAME_REF")
          \/ TtTreeSink_finish_node
          \/ TtTreeSink_error(<<"e">>)
    \/ TtTreeSink_finish

SpecSink == InitSink /\ [][NextSink]_vars

(***************************************************************************)
(* The round trip: the forward conversion's result goes through            *)
(* token_tree_to_syntax_node, with a parser that accepts the tokens one by *)
(* one (a lifetime as one token) and consumes them all.                    *)
(***************************************************************************)
parser_kind(c) ==
    CASE ents[c].e = "Leaf" /\ ents[c].leaf.tt = "Ident" -> "IDENT"
      [] ents[c].e = "Leaf" /\ ents[c].leaf.tt = "Literal" -> "LITERAL"
      [] ents[c].e = "Leaf" /\ ents[c].leaf.tt = "Punct" ->
            IF ents[c].leaf.char = "'" /\ ents[c + 1].e = "Leaf"
               /\ ents[c + 1].leaf.tt = "Ident"
            THEN "LIFETIME_IDENT" ELSE "PUNCT"
      [] OTHER -> "DELIM"

parser_token ==
    /\ spc = "run"
    /\ ~Cursor_eof(cursor)
    /\ TtTreeSink_token(parser_kind(cursor), 1)

parser_done ==
    /\ spc = "run"
    /\ Cursor_eof(cursor)
    /\ TtTreeSink_finish

NextRT ==
    \/ Next
    \/ token_tree_to_syntax_node
    \/ parser_token
    \/ parser_done

SpecRT == Init /\ [][NextRT]_vars

(***************************************************************************)
(* parse_exprs_with_sep.  TtIter is an index into the token trees of tt.   *)
(* The expression parser is seen through what expect_fragment takes: an    *)
(* expression is an atom (an Ident, a Literal, a delimited group) and any  *)
(* number of `+ atom` after it.  On a token tree no expression starts with *)
(* the parser reports an error and either takes nothing or takes that one  *)
(* token tree into an error node.                                          *)
(***************************************************************************)
IsAtom(t) == t.tt \in {"Ident", "Literal", "Subtree"}
IsBinOp(t) == t.tt = "Punct" /\ t.char = "+"

RECURSIVE OpTail(_)
OpTail(ts) ==
    IF Len(ts) >= 2 /\ IsBinOp(ts[1]) /\ IsAtom(ts[2])
    THEN 2 + OpTail(SubSeq(ts, 3, Len(ts)))
    ELSE 0

\* how many token trees an expression at the head of ts takes
ExprLen(ts) == IF ts = <<>> \/ ~IsAtom(ts[1]) THEN 0 ELSE 1 + OpTail(Tail(ts))

\* what is left for the iterator
TtIter_rest(i) == SubSeq(split_tt, i, Len(split_tt))
TtIter_peek_n0(i) == IF i <= Len(split_tt) THEN <<split_tt[i]>> ELSE <<>>

\* the numbers of token trees expect_fragment may take at i
FragmentLens(i) ==
    IF ExprLen(TtIter_rest(i)) > 0 THEN {ExprLen(TtIter_rest(i))} ELSE {0, 1}

\* ExpandResult::value for the n token trees taken at i
expect_fragment_value(i, n) ==
    CASE n = 0 -> <<>>
      [] n = 1 -> <<split_tt[i]>>
      [] OTHER -> <<Subtree("Invisible", DUMMY, DUMMY, SubSeq(split_tt, i, i + n - 1))>>

subtree_or_wrap(t) ==
    IF t.tt = "Subtree" THEN t ELSE Subtree("Invisible", DUMMY, DUMMY, <<t>>)

\* TtIter::expect_char on the iterator at i: [ok, at], at being where it is left
expect_char(i, char) ==
    IF i > Len(split_tt) THEN [ok |-> FALSE, at |-> i]
    ELSE [ok |-> split_tt[i].tt = "Punct" /\ split_tt[i].char = char, at |-> i + 1]

parse_exprs_with_sep ==
    /\ ppc = "start"
    /\ IF split_tt = <<>>
       THEN ppc' = "done" /\ iter' = iter
       ELSE ppc' = "loop" /\ iter' = 1
    /\ res' = <<>>
    /\ UNCHANGED <<split_tt, sep, fork, fvars, svars, cvars, mvars, hvars, nvars>>

\* the head of the loop: expect_fragment and the push
split_fragment(n) ==
    /\ ppc = "loop" /\ TtIter_peek_n0(iter) # <<>>
    /\ n \in FragmentLens(iter)
    /\ iter' = iter + n
    /\ LET expanded == expect_fragment_value(iter, n)
       IN IF expanded = <<>>
          THEN res' = res /\ ppc' = "tail"
          ELSE res' = Append(res, subtree_or_wrap(expanded[1])) /\ ppc' = "sep"
    /\ UNCHANGED <<split_tt, sep, fork, fvars, svars, cvars, mvars, hvars, nvars>>

\* a variant of split_separator that takes the separator on iter itself
split_separator_on_iter ==
    /\ ppc = "sep"
    /\ LET r == expect_char(iter, sep)
       IN /\ fork' = r.at
          /\ iter' = r.at
          /\ ppc' = IF r.ok THEN "loop" ELSE "tail"
    /\ UNCHANGED <<split_tt, sep, res, fvars, svars, cvars, mvars, hvars, nvars>>

\* the fork and the separator
split_separator ==
    /\ ppc = "sep"
    /\ LET r == expect_char(iter, sep)
       IN /\ fork' = r.at
          /\ IF r.ok
             THEN iter' = r.at /\ ppc' = "loop"
             ELSE iter' = iter /\ ppc' = "tail"
    /\ UNCHANGED <<split_tt, sep, res, fvars, svars, cvars, mvars, hvars, nvars>>

\* the loop's condition fails
split_loop_end ==
    /\ ppc = "loop" /\ TtIter_peek_n0(iter) = <<>>
    /\ ppc' = "tail"
    /\ UNCHANGED <<split_tt, sep, iter, fork, res, fvars, svars, cvars, mvars, hvars, nvars>>

\* a variant of split_rest that collects what the fork has left
split_rest_from_fork ==
    /\ ppc = "tail"
    /\ IF TtIter_peek_n0(iter) # <<>>
       THEN /\ res' = Append(res, Subtree("Invisible", DUMMY, DUMMY,
                                          TtIter_rest(IF fork > iter THEN fork ELSE iter)))
            /\ iter' = Len(split_tt) + 1
       ELSE UNCHANGED <<res, iter>>
    /\ ppc' = "done"
    /\ UNCHANGED <<split_tt, sep, fork, fvars, svars, cvars, mvars, hvars, nvars>>

\* a variant of split_rest that pushes what is left even when nothing is
split_rest_always ==
    /\ ppc = "tail"
    /\ res' = Append(res, Subtree("Invisible", DUMMY, DUMMY, TtIter_rest(iter)))
    /\ iter' = Len(split_tt) + 1
    /\ ppc' = "done"
    /\ UNCHANGED <<split_tt, sep, fork, fvars, svars, cvars, mvars, hvars, nvars>>

\* what is left over, and the return
split_rest ==
    /\ ppc = "tail"
    /\ IF TtIter_peek_n0(iter) # <<>>
       THEN /\ res' = Append(res, Subtree("Invisible", DUMMY, DUMMY, TtIter_rest(iter)))
            /\ iter' = Len(split_tt) + 1
       ELSE UNCHANGED <<res, iter>>
    /\ ppc' = "done"
    /\ UNCHANGED <<split_tt, sep, fork, fvars, svars, cvars, mvars, hvars, nvars>>

\* the token trees a caller may pass: shapes turned into trees, each with the
\* span of its place
ItemShapes == {"a", "1", "+", ",", ";", "(a)"}
MkItem(shape, n) ==
    CASE shape = "a" -> Ident(<<"a">>, S(n))
      [] shape = "1" -> Literal(<<"1">>, S(n))
      [] shape = "(a)" -> Subtree("Parenthesis", S(n), S(n), <<Ident(<<"a">>, S(n))>>)
      [] OTHER -> Punct(shape, "Alone", S(n))
MkItems(shapes) == [i \in 1..Len(shapes) |-> MkItem(shapes[i], i)]
Separators == {",", ";"}

InitSplit ==
    /\ SinkIdle
    /\ Map_new /\ TypeIdHasher_default /\ MapFromIdle /\ build = [profile |-> "release", endian |-> "little"]
    /\ censored = {}
    /\ toks = <<>> /\ backend = "tree" /\ lexErrors = FALSE /\ mapMode = "none"
    /\ anchor_offset = 0 /\ pos = 1 /\ punct_offset = <<>> /\ stack = <<>>
    /\ pc = "idle" /\ result = <<>>
    /\ split_tt \in {MkItems(sh) : sh \in SeqsUpTo(ItemShapes, MaxItems)}
    /\ sep \in Separators
    /\ iter = 0 /\ fork = 0 /\ res = <<>> /\ ppc = "start"

NextSplit ==
    \/ parse_exprs_with_sep
    \/ \E n \in 0..MaxItems : split_fragment(n)
    \/ split_separator
    \/ split_loop_end
    \/ split_rest

SpecSplit == InitSplit /\ [][NextSplit]_vars

(***************************************************************************)
(* A Map in use: any sequence of get and entry, an Entry borrowing the map  *)
(* until or_insert_with, or insert on its Vacant variant, has consumed it.  *)
(***************************************************************************)
InitMap ==
    /\ SinkIdle /\ SplitIdle
    /\ Map_new /\ TypeIdHasher_default /\ MapFromIdle /\ build = [profile |-> "release", endian |-> "little"]
    /\ censored = {}
    /\ toks = <<>> /\ backend = "tree" /\ lexErrors = FALSE /\ mapMode = "none"
    /\ anchor_offset = 0 /\ pos = 1 /\ punct_offset = <<>> /\ stack = <<>>
    /\ pc = "idle" /\ result = <<>>

NextMap ==
    \/ \E T \in Types : Map_get(T)
    \/ \E T \in Types : Map_entry(T)
    \/ \E default \in Values : Entry_or_insert_with(default)
    \/ \E value \in Values : VacantEntry_insert(value)

SpecMap == InitMap /\ [][NextMap]_vars

(***************************************************************************)
(* A TypeIdHasher in use: writes of any sort, and finish at any time.      *)
(***************************************************************************)
HashInputs ==
    { <<>>, <<5>>, <<1, 2, 3, 4, 5, 6, 7>>,
      <<0, 0, 0, 0, 0, 0, 0, 0>>, <<1, 0, 0, 0, 0, 0, 0, 0>>, <<0, 0, 0, 0, 0, 0, 0, 2>>,
      <<1, 2, 3, 4, 5, 6, 7, 8>>, <<1, 2, 3, 4, 5, 6, 7, 8, 9>> }

InitHash ==
    /\ SinkIdle /\ SplitIdle
    /\ Map_new /\ TypeIdHasher_default /\ MapFromIdle
    /\ build \in Builds
    /\ censored = {}
    /\ toks = <<>> /\ backend = "tree" /\ lexErrors = FALSE /\ mapMode = "none"
    /\ anchor_offset = 0 /\ pos = 1 /\ punct_offset = <<>> /\ stack = <<>>
    /\ pc = "idle" /\ result = <<>>

NextHash ==
    \/ \E bytes \in HashInputs : TypeIdHasher_write(bytes)
    \/ TypeIdHasher_finish

SpecHash == InitHash /\ [][NextHash]_vars

(***************************************************************************)
(* map_from_syntax_node: the descendant tokens of the node are toks, in    *)
(* order, trivia included; the closure of for_each is one step per token.  *)
(***************************************************************************)
\* TextRange - TextSize: checked_sub(..).expect("TextRange -offset overflowed")
TextRange_sub(r, offset) == IF offset > r.start THEN <<>> ELSE <<RangeSub(r, offset)>>

map_from_syntax_node ==
    /\ mfpc = "start"
    /\ map' = <<>> /\ mtok' = 1 /\ mfpc' = "each"
    /\ UNCHANGED <<fvars, svars, pvars, cvars, mvars, hvars>>

\* a variant of the closure that keys the entry by the relative range
map_from_syntax_node_insert_relative ==
    /\ mfpc = "each" /\ mtok <= Len(toks)
    /\ LET range == TextRange_sub(TokRange(mtok), anchor_offset)
       IN IF range = <<>>
          THEN mfpc' = "panic" /\ UNCHANGED <<map, mtok>>
          ELSE /\ map' = Append(map, [range |-> range[1],
                                      span |-> SpanData(range[1], Anchor, CtxDUMMY)])
               /\ mtok' = mtok + 1
               /\ mfpc' = mfpc
    /\ UNCHANGED <<fvars, svars, pvars, cvars, mvars, hvars>>

map_from_syntax_node_insert ==
    /\ mfpc = "each" /\ mtok <= Len(toks)
    /\ LET range == TextRange_sub(TokRange(mtok), anchor_offset)
       IN IF range = <<>>
          THEN mfpc' = "panic" /\ UNCHANGED <<map, mtok>>
          ELSE /\ map' = Append(map, [range |-> TokRange(mtok),
                                      span |-> SpanData(range[1], Anchor, CtxDUMMY)])
               /\ mtok' = mtok + 1
               /\ mfpc' = mfpc
    /\ UNCHANGED <<fvars, svars, pvars, cvars, mvars, hvars>>

map_from_syntax_node_return ==
    /\ mfpc = "each" /\ mtok > Len(toks)
    /\ mfpc' = "done"
    /\ UNCHANGED <<map, mtok, fvars, svars, pvars, cvars, mvars, hvars>>

InitMapFrom ==
    /\ SinkIdle /\ SplitIdle
    /\ Map_new /\ TypeIdHasher_default /\ build = [profile |-> "release", endian |-> "little"]
    /\ censored = {}
    /\ toks \in Inputs /\ backend = "tree" /\ lexErrors = FALSE /\ mapMode = "none"
    /\ anchor_offset \in AnchorOffsets
    /\ pos = 1 /\ punct_offset = <<>> /\ stack = <<>>
    /\ pc = "idle" /\ result = <<>>
    /\ map = <<>> /\ mtok = 0 /\ mfpc = "start"

NextMapFrom ==
    \/ map_from_syntax_node
    \/ map_from_syntax_node_insert
    \/ map_from_syntax_node_return

SpecMapFrom == InitMapFrom /\ [][NextMapFrom]_vars

(***************************************************************************)
(* The input as the claims see it: the units the converter hands to        *)
(* convert_tokens, one per source token, and one per character of a        *)
(* punctuation token of the syntax tree.                                   *)
(***************************************************************************)
RECURSIVE UnitsFrom(_)
UnitsFrom(i) ==
    IF i > Len(toks) THEN <<>>
    ELSE (IF backend = "tree" /\ toks[i].kind \in PunctKinds
          THEN [k \in 1..Len(toks[i].text) |-> [idx |-> i, pidx |-> k - 1]]
          ELSE <<[idx |-> i, pidx |-> -1]>>) \o UnitsFrom(i + 1)

Units == UnitsFrom(1)

\* how many units the loop has taken so far
NConsumed ==
    Len(Units) - Len(UnitsFrom(pos))
    - (IF backend = "tree" /\ punct_offset # <<>>
       THEN Len(toks[punct_offset[1].idx].text) - 1 - punct_offset[1].off ELSE 0)

UnitKind(u) ==
    IF u.pidx = -1 THEN toks[u.idx].kind ELSE from_char(toks[u.idx].text[u.pidx + 1])
UnitChar(u) == toks[u.idx].text[IF u.pidx = -1 THEN 1 ELSE u.pidx + 1]
UnitAbs(u) ==
    IF u.pidx = -1 /\ ~(backend = "tree" /\ toks[u.idx].kind \in PunctKinds)
    THEN TokRange(u.idx)
    ELSE RangeAt(TokStart(u.idx) + (IF u.pidx = -1 THEN 0 ELSE u.pidx), 1)
UnitRel(u) == IF backend = "tree" THEN RangeSub(UnitAbs(u), anchor_offset) ELSE UnitAbs(u)
\* the span of a token: the map's when it has one, else anchor + relative range
UnitSpan(u) ==
    IF backend = "tree" /\ mapMode = "all" THEN SpanData(UnitAbs(u), "M", "CTX")
    ELSE SpanData(UnitRel(u), Anchor, "DUMMY")

Last(q) == q[Len(q)]

RECURSIVE NestedSubtrees(_)
NestedSubtrees(trees) ==
    IF trees = <<>> THEN {}
    ELSE (IF Head(trees).tt = "Subtree"
          THEN {Head(trees)} \cup NestedSubtrees(Head(trees).token_trees)
          ELSE {}) \cup NestedSubtrees(Tail(trees))

OpenerKindOf(dk) ==
    CASE dk = "Parenthesis" -> "L_PAREN" [] dk = "Brace" -> "L_CURLY"
      [] dk = "Bracket" -> "L_BRACK" [] OTHER -> "NONE"
CloserKindOf(dk) ==
    CASE dk = "Parenthesis" -> "R_PAREN" [] dk = "Brace" -> "R_CURLY"
      [] dk = "Bracket" -> "R_BRACK" [] OTHER -> "NONE"

\* s was opened by an opener token and closed by a later closer token of its kind
ClosedByToken(s) ==
    \E i \in 1..Len(Units) : \E j \in (i + 1)..Len(Units) :
        /\ UnitKind(Units[i]) = OpenerKindOf(s.kind)
        /\ UnitKind(Units[j]) = CloserKindOf(s.kind)
        /\ s.open = UnitSpan(Units[i])
        /\ s.close = UnitSpan(Units[j])
        /\ s.close # SpanData(UnitRel(Units[i]), Anchor, "DUMMY")

IsDocComment(tok) ==
    /\ tok.kind = "COMMENT"
    /\ \/ IsPrefix(<<"/", "/", "/">>, tok.text) \/ IsPrefix(<<"/", "/", "!">>, tok.text)
       \/ IsPrefix(<<"/", "*", "*">>, tok.text) \/ IsPrefix(<<"/", "*", "!">>, tok.text)

\* s is the [doc = "..."] group synthesized for a doc comment
DocAttribute(s) ==
    /\ s.kind = "Bracket"
    /\ s.open = s.close
    /\ \E i \in 1..Len(Units) : IsDocComment(toks[Units[i].idx]) /\ s.open = UnitSpan(Units[i])

Returned == pc = "done" /\ result # <<>>

(***************************************************************************)
(* C1: for every input convert_tokens returns one root Subtree, that is,   *)
(* once entered it does not panic and what it hands back is a Subtree; and *)
(* every Subtree nested in the result was closed by a matching closer      *)
(* token, whose span is its close span (never the placeholder given at the *)
(* push), so that no frame still open at the end is among them.            *)
(***************************************************************************)
C1_Returns ==
    /\ (pc = "done" /\ ~lexErrors) => Returned
    /\ Returned => (Len(result) = 1 /\ result[1].tt = "Subtree")
C1_NestedClosed ==
    Returned => \A s \in NestedSubtrees(result[1].token_trees) : ClosedByToken(s)
C1_AllSubtreesClosedByToken ==
    /\ [][~(pc = "loop" /\ pc' = "panic")]_vars
    /\ []C1_Returns
    /\ []C1_NestedClosed

(***************************************************************************)
(* C3: each pass of the recovery loop removes the innermost frame and      *)
(* appends to its parent one Alone Punct with the frame's opening          *)
(* character and open span, then the frame's children in order; the loop   *)
(* ends with one frame and the conversion returns a subtree.               *)
(***************************************************************************)
C3_OpeningChar(dk) ==
    CASE dk = "Parenthesis" -> "(" [] dk = "Brace" -> "{" [] dk = "Bracket" -> "["

C3_RecoveryStep ==
    (pc = "recover" /\ Len(stack) > 1) =>
        LET n == Len(stack)
            frame == stack[n]
            parent == stack[n - 1]
        IN /\ Len(stack') = n - 1
           /\ SubSeq(stack', 1, n - 2) = SubSeq(stack, 1, n - 2)
           /\ frame.kind \in {"Parenthesis", "Brace", "Bracket"}
           /\ stack'[n - 1] =
                [parent EXCEPT !.token_trees =
                    parent.token_trees
                    \o <<[tt |-> "Punct", char |-> C3_OpeningChar(frame.kind),
                          spacing |-> "Alone", span |-> frame.open]>>
                    \o frame.token_trees]
           /\ pc' = "recover"

C3_RecoveryMergesFrames ==
    /\ [][C3_RecoveryStep]_vars
    /\ [](pc = "done" /\ ~lexErrors => Len(stack) = 1 /\ Len(result) = 1)
    /\ [](pc = "panic" => backend = "tree")
    /\ [][(pc = "loop" /\ pc' = "panic") =>
             UnitKind(Units[NConsumed + 1]) = "COMMENT"]_vars

\* `( { a`: two surplus frames merged, innermost first
C3_Witness ==
    /\ pc = "done" /\ toks = <<tLParen, tLCurly, tA>>
    /\ Len(result) = 1
    /\ Len(result[1].token_trees) = 3
    /\ result[1].token_trees[1].char = "("
    /\ result[1].token_trees[2].char = "{"
    /\ result[1].token_trees[3].tt = "Ident"

(***************************************************************************)
(* C4: parse_to_token_tree returns None, without running convert_tokens,   *)
(* whenever the lexer reported an error; with no lexical error it runs the *)
(* conversion, never fails, and returns Some(subtree), also for            *)
(* unbalanced delimiters.                                                  *)
(***************************************************************************)
C4_NoneExactlyOnLexErrors ==
    (backend = "raw" /\ pc # "start") =>
        IF lexErrors
        THEN pc = "done" /\ result = <<>> /\ stack = <<>> /\ pos = 1
        ELSE /\ pc \in {"loop", "recover", "done"}
             /\ stack # <<>>
             /\ pc = "done" => (Len(result) = 1 /\ result[1].tt = "Subtree")

C4_Witness == backend = "raw" /\ lexErrors /\ pc = "done" /\ result = <<>> /\ toks # <<>>

(***************************************************************************)
(* C5: a punctuation token that is neither an opener nor the expected      *)
(* closer becomes one Punct leaf whose spacing is Joint exactly when the   *)
(* unit that follows it (the next source token, or the next character of   *)
(* the same punctuation token) is a single-character operator or a         *)
(* lifetime, and Alone otherwise and at end of input.                      *)
(***************************************************************************)
C5_JointBefore ==
    {"EQ", "L_ANGLE", "R_ANGLE", "BANG", "AMP", "PIPE", "TILDE", "AT", "DOT", "COMMA",
     "SEMICOLON", "COLON", "POUND", "DOLLAR", "QUESTION", "PLUS", "MINUS", "STAR",
     "SLASH", "PERCENT", "CARET", "LIFETIME_IDENT"}

C5_PlainPunct(u) ==
    /\ UnitKind(u) \in PunctKinds \ {"UNDERSCORE", "L_PAREN", "L_CURLY", "L_BRACK"}
    /\ UnitKind(u) # CloserKindOf(Top(stack).kind)

C5_Step ==
    (pc = "loop" /\ NConsumed < Len(Units) /\ C5_PlainPunct(Units[NConsumed + 1])) =>
        LET n == NConsumed
            trees == Top(stack').token_trees
        IN /\ Len(stack') = Len(stack)
           /\ Len(trees) = Len(Top(stack).token_trees) + 1
           /\ Last(trees).tt = "Punct"
           /\ Last(trees).char = UnitChar(Units[n + 1])
           /\ Last(trees).spacing =
                (IF n + 2 <= Len(Units) /\ UnitKind(Units[n + 2]) \in C5_JointBefore
                 THEN "Joint" ELSE "Alone")

C5_SpacingFollowsLookahead == [][C5_Step]_vars

\* `a+-b`: `+` is Joint, `-` is Alone
C5_Witness ==
    /\ Returned /\ toks = <<tA, tPlus, tMinus, tB>>
    /\ result[1].token_trees[2].char = "+" /\ result[1].token_trees[2].spacing = "Joint"
    /\ result[1].token_trees[3].char = "-" /\ result[1].token_trees[3].spacing = "Alone"

(***************************************************************************)
(* C6: a lifetime token appends two leaves, a Joint Punct `'` and an Ident *)
(* holding the text after the quote, each with its own slice of the        *)
(* token's span: the quote the first character, the identifier the rest,   *)
(* with a span from the map as with a constructed one.                     *)
(***************************************************************************)
C6_Step ==
    (pc = "loop" /\ NConsumed < Len(Units)
     /\ UnitKind(Units[NConsumed + 1]) = "LIFETIME_IDENT") =>
        LET u == Units[NConsumed + 1]
            whole == UnitSpan(u)
            old == Top(stack).token_trees
            trees == Top(stack').token_trees
            quote == trees[Len(old) + 1]
            name == trees[Len(old) + 2]
        IN /\ Len(stack') = Len(stack)
           /\ Len(trees) = Len(old) + 2
           /\ quote.tt = "Punct" /\ quote.char = "'" /\ quote.spacing = "Joint"
           /\ name.tt = "Ident" /\ name.text = Tail(toks[u.idx].text)
           /\ quote.span = [whole EXCEPT !.range = Range(whole.range.start,
                                                         whole.range.start + 1)]
           /\ name.span = [whole EXCEPT !.range = Range(whole.range.start + 1,
                                                        whole.range.end)]

C6_LifetimeSplitWithSlicedSpans == [][C6_Step]_vars

(***************************************************************************)
(* C8: a comment never becomes a leaf.  An outer doc comment appends       *)
(* `#` and a Bracket group [doc = "<escaped body>"], an inner one `#`, `!` *)
(* and the same group, any other comment nothing; every leaf and both      *)
(* delimiter spans carry the comment's span, and the stack depth stays.    *)
(***************************************************************************)
C8_Placement(tok) ==
    CASE tok \in {tDocOuter, tDocTab} -> "Outer"
      [] tok \in {tDocInner, tDocOpen, tDocWide, tDocWideA} -> "Inner"
      [] OTHER -> "None"

\* the quoted, escaped bodies of the model's doc comments: "h\"", "h", a tab
\* between a and b and, for the comments that stop before their `*/`, what
\* follows the `/*!`
C8_Body(tok) ==
    CASE tok = tDocOuter -> <<"\"", "h", "\\", "\"", "\"">>
      [] tok = tDocInner -> <<"\"", "h", "\"">>
      [] tok = tDocTab -> <<"\"", "a", "\\", "t", "b", "\"">>
      [] tok = tDocOpen -> <<"\"", "\"">>
      [] tok = tDocWide -> <<"\"", "U+00E9", "\"">>
      [] tok = tDocWideA -> <<"\"", "U+00E9", "a", "\"">>

C8_Group(tok, sp) ==
    [tt |-> "Subtree", kind |-> "Bracket", open |-> sp, close |-> sp,
     token_trees |->
        << [tt |-> "Ident", text |-> <<"d", "o", "c">>, span |-> sp],
           [tt |-> "Punct", char |-> "=", spacing |-> "Alone", span |-> sp],
           [tt |-> "Literal", text |-> C8_Body(tok), span |-> sp] >>]

C8_Hash(c, sp) == [tt |-> "Punct", char |-> c, spacing |-> "Alone", span |-> sp]

C8_Step ==
    (pc = "loop" /\ NConsumed < Len(Units)
     /\ UnitKind(Units[NConsumed + 1]) = "COMMENT") =>
        LET u == Units[NConsumed + 1]
            tok == toks[u.idx]
            sp == UnitSpan(u)
            n == Len(stack)
            added == CASE C8_Placement(tok) = "Outer" -> <<C8_Hash("#", sp), C8_Group(tok, sp)>>
                       [] C8_Placement(tok) = "Inner" ->
                            <<C8_Hash("#", sp), C8_Hash("!", sp), C8_Group(tok, sp)>>
                       [] OTHER -> <<>>
        IN /\ Len(stack') = n
           /\ SubSeq(stack', 1, n - 1) = SubSeq(stack, 1, n - 1)
           /\ stack'[n] = [stack[n] EXCEPT !.token_trees = @ \o added]

C8_DocCommentsDesugared == [][C8_Step]_vars

(***************************************************************************)
(* The reverse conversion as the claims see it.                            *)
(***************************************************************************)
\* the builder calls one event added
NewCalls == SubSeq(inner', Len(inner) + 1, Len(inner'))
NewMarks == SubSeq(token_map', Len(token_map) + 1, Len(token_map'))
IsLeafAt(c, tt) == ents[c].e = "Leaf" /\ ents[c].leaf.tt = tt
\* the cursor stands on a quote Punct with a name after it
AtLifetime(c) ==
    /\ IsLeafAt(c, "Punct") /\ ents[c].leaf.char = "'"
    /\ IsLeafAt(c + 1, "Ident")
\* this step handles a parser event of the given sort
Handles(ev) == events' = events + 1 /\ event'.ev = ev
LifetimeEvent == Handles("Token") /\ event'.kind = "LIFETIME_IDENT"

\* C7 as stated: a consume event of lifetime kind takes exactly two leaves,
\* the quote Punct and the name Ident, wherever the cursor stands, and emits
\* them as one token, quote then name.
C7_Step ==
    LifetimeEvent =>
        /\ spc' = "run"
        /\ AtLifetime(cursor)
        /\ cursor' = cursor + 2
        /\ NewCalls = <<BToken("LIFETIME_IDENT", <<"'">> \o ents[cursor + 1].leaf.text)>>
C7_LifetimeAlwaysTwoLeaves == [][C7_Step]_vars

\* C7 amended: a consume event of lifetime kind ignores the count the parser
\* reported: what it does is the same for every count.  It takes at most two
\* units and stops early only at the end of the buffer.  Where the cursor
\* stands on a quote Punct followed by a name Ident it takes exactly those
\* two leaves, marks a range for each, and emits one token, quote then name,
\* with no whitespace in between or after.
C7_SameAsTwo ==
    LET st == token_loop(SinkState, 2)
    IN IF st.panic THEN spc' = "panic"
       ELSE /\ spc' = "run" /\ cursor' = st.cursor /\ token_map' = st.token_map
            /\ Len(NewCalls) >= 1
            /\ NewCalls[1] = BToken("LIFETIME_IDENT", st.buf)
C7_AmendedStep ==
    LifetimeEvent =>
        /\ C7_SameAsTwo
        /\ spc' = "run" =>
              /\ Len(NewMarks) <= 2
              /\ Len(NewMarks) < 2 => Cursor_eof(cursor')
        /\ AtLifetime(cursor) =>
              LET name == ents[cursor + 1].leaf
              IN /\ spc' = "run"
                 /\ cursor' = cursor + 2
                 /\ NewCalls = <<BToken("LIFETIME_IDENT", <<"'">> \o name.text)>>
                 /\ text_pos' = text_pos + 1 + Len(name.text)
                 /\ NewMarks = <<[range |-> RangeAt(text_pos, 1),
                                  span |-> ents[cursor].leaf.span],
                                 [range |-> RangeAt(text_pos + 1, Len(name.text)),
                                  span |-> name.span]>>
C7_LifetimeTakesQuoteAndName == [][C7_AmendedStep]_vars

\* a lifetime event with a reported count of 1 has taken the quote and the name
C7_Witness ==
    /\ spc = "run"
    /\ event = [ev |-> "Token", kind |-> "LIFETIME_IDENT", n_input_tokens |-> 1]
    /\ inner = <<BToken("LIFETIME_IDENT", <<"'", "a">>)>>
    /\ cursor = 3

\* C9: after the output token, exactly one WHITESPACE token " " follows and
\* text_pos advances by one when the last leaf consumed is an Alone Punct
\* other than `;` and the leaf right after it in the same subtree is a Punct
\* other than the quote; otherwise no whitespace follows.
C9_LastLeafConsumed == IF cursor' > cursor /\ ents[cursor' - 1].e = "Leaf"
                       THEN <<ents[cursor' - 1].leaf>> ELSE <<>>
C9_Following == IF ents[cursor'].e = "Leaf" THEN <<ents[cursor'].leaf>> ELSE <<>>
C9_Expected ==
    LET l == C9_LastLeafConsumed
        f == C9_Following
    IN /\ l # <<>> /\ l[1].tt = "Punct" /\ l[1].spacing = "Alone" /\ l[1].char # ";"
       /\ f # <<>> /\ f[1].tt = "Punct" /\ f[1].char # "'"
C9_Step ==
    (Handles("Token") /\ spc' = "run") =>
        /\ Len(NewCalls) >= 1 /\ NewCalls[1].op = "token" /\ NewCalls[1].kind = event'.kind
        /\ IF C9_Expected
           THEN /\ Tail(NewCalls) = <<BToken("WHITESPACE", <<" ">>)>>
                /\ text_pos' = text_pos + Len(NewCalls[1].text) + 1
           ELSE /\ Tail(NewCalls) = <<>>
                /\ text_pos' = text_pos + Len(NewCalls[1].text)
C9_WhitespaceBetweenAdjointPuncts == [][C9_Step]_vars

\* C10: float_split on a Literal leaf `L.R` splits at the first `.`, emits a
\* NAME_REF node around INT_NUMBER L, a bare DOT and, only when has_pseudo_dot
\* is false, a NAME_REF node around INT_NUMBER R, and advances the cursor by
\* one leaf; it panics when L is empty, when has_pseudo_dot is true and R is
\* not empty, and when has_pseudo_dot is false and R is empty.
C10_FirstDot(text) == CHOOSE i \in 1..Len(text) :
                          text[i] = "." /\ \A j \in 1..(i - 1) : text[j] # "."
C10_NameRef(t) == <<StartNode("NAME_REF"), BToken("INT_NUMBER", t), FinishNode>>
C10_Step ==
    (/\ Handles("FloatSplit")
     /\ IsLeafAt(cursor, "Literal")
     /\ \E i \in 1..Len(ents[cursor].leaf.text) : ents[cursor].leaf.text[i] = ".") =>
        LET text == ents[cursor].leaf.text
            d == C10_FirstDot(text)
            L == SubSeq(text, 1, d - 1)
            R == SubSeq(text, d + 1, Len(text))
        IN IF L # <<>> /\ (event'.ends_in_dot <=> R = <<>>)
           THEN /\ spc' = "run"
                /\ cursor' = cursor + 1
                /\ NewCalls = C10_NameRef(L) \o <<FinishNode, BToken("DOT", <<".">>)>>
                               \o IF event'.ends_in_dot THEN <<>>
                                  ELSE C10_NameRef(R) \o <<FinishNode>>
           ELSE spc' = "panic"
C10_FloatSplit == [][C10_Step]_vars

\* `1.2.3` was split into `1` and `2.3`
C10_Witness ==
    /\ spc = "run"
    /\ event = [ev |-> "FloatSplit", ends_in_dot |-> FALSE]
    /\ Len(inner) >= 9
    /\ inner[Len(inner) - 7] = BToken("INT_NUMBER", <<"1">>)
    /\ inner[Len(inner) - 2] = BToken("INT_NUMBER", <<"2", ".", "3">>)

(***************************************************************************)
(* The round trip as the claims see it.                                    *)
(***************************************************************************)
RECURSIVE TextOf(_)
TextOf(ts) == IF ts = <<>> THEN <<>> ELSE Head(ts).text \o TextOf(Tail(ts))
IsBlank(ch) == ch = " "
StripWs(text) == SelectSeq(text, LAMBDA ch : ~IsBlank(ch))
\* the text of the tree the builder was fed
RenderedText == TextOf(SelectSeq(inner, LAMBDA c : c.op = "token"))
OriginalText == TextOf(toks)
RoundTripDone == Returned /\ spc = "done"
HasComment == \E i \in 1..Len(toks) : toks[i].kind = "COMMENT"

\* C2 as stated: forward then reverse renders the original text, whitespace
\* aside, for every fragment, those with comments and doc comments included.
C2_RoundTripText == RoundTripDone => StripWs(RenderedText) = StripWs(OriginalText)

\* C2 amended: forward then reverse renders the original text, whitespace
\* aside, for every fragment that holds no comment; lifetimes and
\* multi-character punctuation come back as they were.
C2_RoundTripTextWithoutComments ==
    (RoundTripDone /\ ~HasComment) => StripWs(RenderedText) = StripWs(OriginalText)

\* `'ab -> a` has gone there and back
C2_Witness ==
    /\ RoundTripDone
    /\ toks = <<tLife, tArrow, tA>>
    /\ RenderedText = <<"'", "a", "b", "-", ">", "a">>

(***************************************************************************)
(* parse_exprs_with_sep as the claims see it.                              *)
(***************************************************************************)
IsSep(t) == t.tt = "Punct" /\ t.char = sep
\* the runs of token trees between separators
RECURSIVE SplitAtSep(_)
SplitAtSep(ts) ==
    LET seps == {i \in 1..Len(ts) : IsSep(ts[i])}
    IN IF seps = {} THEN <<ts>>
       ELSE LET i == CHOOSE j \in seps : \A k \in seps : j <= k
            IN <<SubSeq(ts, 1, i - 1)>> \o SplitAtSep(SubSeq(ts, i + 1, Len(ts)))
\* a single trailing separator opens no fragment
Fragments ==
    LET segs == SplitAtSep(split_tt)
    IN IF Len(segs) > 1 /\ segs[Len(segs)] = <<>> THEN SubSeq(segs, 1, Len(segs) - 1)
       ELSE segs
\* atom, `+`, atom, ...
WholeExpr(seg) ==
    /\ Len(seg) % 2 = 1
    /\ \A i \in 1..Len(seg) :
          IF i % 2 = 1 THEN seg[i].tt \in {"Ident", "Literal", "Subtree"}
          ELSE seg[i].tt = "Punct" /\ seg[i].char = "+"
WellFormedFragments == split_tt # <<>> /\ \A i \in 1..Len(Fragments) : WholeExpr(Fragments[i])
FragmentSubtree(seg) ==
    IF Len(seg) = 1 /\ seg[1].tt = "Subtree" THEN seg[1]
    ELSE Subtree("Invisible", DUMMY, DUMMY, seg)

\* C11: on k >= 1 well-formed expression fragments separated by single
\* separators parse_exprs_with_sep returns exactly k subtrees, in order, one
\* per fragment; a single trailing separator adds no empty fragment; an empty
\* input subtree returns an empty list.
C11_OnePerFragment ==
    ppc = "done" =>
        /\ split_tt = <<>> => res = <<>>
        /\ WellFormedFragments =>
              /\ Len(res) = Len(Fragments)
              /\ \A i \in 1..Len(Fragments) : res[i] = FragmentSubtree(Fragments[i])

\* `a , 1 ,` gave two subtrees
C11_Witness ==
    /\ ppc = "done"
    /\ split_tt = MkItems(<<"a", ",", "1", ",">>) /\ sep = ","
    /\ Len(res) = 2

\* the token trees a returned subtree stands for
Covered(r) == IF r.kind = "Invisible" THEN r.token_trees ELSE <<r>>
RECURSIVE AllCovered(_)
AllCovered(rs) == IF rs = <<>> THEN <<>> ELSE Covered(Head(rs)) \o AllCovered(Tail(rs))
DropSeps(ts) == SelectSeq(ts, LAMBDA t : ~IsSep(t))

\* C12: a separator that is missing is looked for on the fork only and iter
\* stays where the fragment ended; when the loop stops with token trees left
\* (no separator, or a fragment that is nothing) they all go, from iter to
\* the end, into one last subtree with the unspecified delimiter; nothing but
\* separators is missing from what is returned.
C12_Step ==
    /\ (ppc = "sep" /\ ppc' = "tail") =>
          /\ iter' = iter /\ res' = res
          /\ fork' = IF iter <= Len(split_tt) THEN iter + 1 ELSE iter
    /\ (ppc = "loop" /\ ppc' = "tail") => (iter' = iter /\ res' = res)
    /\ (ppc = "tail" /\ ppc' = "done") =>
          IF iter <= Len(split_tt)
          THEN res' = Append(res, Subtree("Invisible", DUMMY, DUMMY,
                                          SubSeq(split_tt, iter, Len(split_tt))))
          ELSE res' = res
C12_NothingDropped == ppc = "done" => DropSeps(AllCovered(res)) = DropSeps(split_tt)
C12_RestKept == [][C12_Step]_vars /\ []C12_NothingDropped

\* `a 1`: no separator after `a`, and `1` came back in the last subtree
C12_Witness ==
    /\ ppc = "done"
    /\ split_tt = MkItems(<<"a", "1">>)
    /\ fork = 3 /\ Len(res) = 2
    /\ res[2] = Subtree("Invisible", DUMMY, DUMMY, <<Literal(<<"1">>, S(2))>>)

(***************************************************************************)
(* The censored conversion as the claims see it.                           *)
(***************************************************************************)
IsCensored(i) == \E n \in censored : n.lo <= i /\ i <= n.hi
\* the first token at or after i that is under no censored node
FirstUncensored(i) ==
    LET free == {j \in i..Len(toks) : ~IsCensored(j)}
    IN IF free = {} THEN Len(toks) + 1
       ELSE CHOOSE j \in free : \A k \in free : j <= k
RECURSIVE SpansOf(_)
SpansOf(trees) ==
    IF trees = <<>> THEN {}
    ELSE LET t == Head(trees)
         IN (IF t.tt = "Subtree" THEN {t.open, t.close} \cup SpansOf(t.token_trees)
             ELSE {t.span})
            \cup SpansOf(Tail(trees))
\* the token a span's range starts in
TokenAt(offset) == CHOOSE i \in 1..Len(toks) : TokStart(i) <= offset /\ offset < TokStart(i + 1)
OutputSpans == (SpansOf(stack) \cup SpansOf(result)) \ {DUMMY}

\* C13: no token under a censored node appears in the output, as a leaf, a
\* delimiter or a desugared doc comment; the tokens under no censored node
\* are all visited, in source order; and with no censored node the converter
\* starts as syntax_node_to_token_tree starts it.
C13_NoCensoredOutput ==
    pc \in {"loop", "recover", "done"} =>
        \A sp \in OutputSpans : ~IsCensored(TokenAt(sp.range.start))
C13_Step ==
    /\ (pc = "start" /\ pc' = "loop") =>
          /\ pos' = LET c == censored' IN
                      IF \A j \in 1..Len(toks) : \E n \in c : n.lo <= j /\ j <= n.hi
                      THEN Len(toks) + 1
                      ELSE CHOOSE j \in 1..Len(toks) :
                               /\ ~\E n \in c : n.lo <= j /\ j <= n.hi
                               /\ \A k \in 1..(j - 1) : \E n \in c : n.lo <= k /\ k <= n.hi
          /\ censored' = {} => (pos' = 1 /\ stack' = <<Entry>> /\ punct_offset' = <<>>)
    /\ (pc = "loop" /\ pos' # pos) =>
          /\ ~IsCensored(pos)
          /\ pos' = FirstUncensored(pos + 1)
    /\ (pc = "loop" /\ pc' = "recover") => pos = Len(toks) + 1
C13_CensoredTokensSkipped == [][C13_Step]_vars /\ []C13_NoCensoredOutput

\* of `a /// 'ab` with the comment's node censored, `a ' ab` came out
C13_Witness ==
    /\ pc = "done"
    /\ toks = <<tA, tDocOuter, tLife>>
    /\ censored = {[lo |-> 2, hi |-> 2]}
    /\ Len(result[1].token_trees) = 3

(***************************************************************************)
(* C14: the spans the converter constructs itself (no span in the map)     *)
(* carry the caller's anchor, the no-hygiene context and the range of the  *)
(* piece they stand for minus the anchor offset: the token's range, the    *)
(* one-character range of each character of a punctuation token, the       *)
(* quote and the name of a lifetime; no such range starts below zero, and  *)
(* syntax_node_to_token_tree panics, before converting anything, on an     *)
(* anchor offset greater than the node's start.                            *)
(***************************************************************************)
C14_Constructs == mapMode = "none"
C14_Offset == IF backend = "tree" THEN anchor_offset ELSE 0
\* the relative ranges of the pieces of unit u
C14_Pieces(u) ==
    LET a == UnitAbs(u)
        lo == a.start - C14_Offset
        hi == a.end - C14_Offset
    IN IF UnitKind(u) = "LIFETIME_IDENT" THEN {Range(lo, lo + 1), Range(lo + 1, hi)}
       ELSE {Range(lo, hi)}
C14_Spans(u) == {SpanData(r, Anchor, CtxDUMMY) : r \in C14_Pieces(u)}
\* the root's invisible delimiter stands for no token and keeps Span::DUMMY
C14_NewSpans == (SpansOf(stack') \ SpansOf(stack)) \ {DUMMY}

C14_Relative ==
    (C14_Constructs /\ pc \in {"loop", "recover", "done"}) =>
        \A sp \in OutputSpans :
            /\ sp.range.start >= 0
            /\ \E i \in 1..Len(Units) : sp \in C14_Spans(Units[i])
C14_NoOutputOnPanic == pc = "panic" => result = <<>>
C14_Step ==
    /\ (pc = "start" /\ backend = "tree" /\ anchor_offset > NodeRange.start) =>
            pc' = "panic" /\ stack' = <<>> /\ result' = <<>>
    /\ (pc = "start" /\ pc' = "loop") => C14_Offset <= NodeRange.start
    /\ (C14_Constructs /\ pc = "loop" /\ NConsumed < Len(Units)) =>
            LET u == Units[NConsumed + 1]
            IN /\ C14_NewSpans \subseteq C14_Spans(u)
               /\ (UnitKind(u) \in PunctKinds \cup {"LIFETIME_IDENT", "IDENT"}) =>
                      C14_NewSpans = C14_Spans(u)
    /\ (pc # "loop") => C14_NewSpans = {}

C14_RelativeSpans == [][C14_Step]_vars /\ []C14_Relative /\ []C14_NoOutputOnPanic

\* `a->` at anchor offset NodeStart: `-` and `>` carry 1..2 and 2..3
C14_Witness ==
    /\ Returned /\ backend = "tree" /\ mapMode = "none" /\ anchor_offset = NodeStart
    /\ toks = <<tA, tArrow>>
    /\ Len(result[1].token_trees) = 3
    /\ result[1].token_trees[2].span = SpanData(Range(1, 2), Anchor, CtxDUMMY)
    /\ result[1].token_trees[3].span = SpanData(Range(2, 3), Anchor, CtxDUMMY)

(***************************************************************************)
(* C15, as stated: whatever events came before, a Consume event emits one  *)
(* token of its kind whose text is the text of the pieces it took, and the *)
(* Span Map entry of each piece lies where the piece's text was emitted:   *)
(* it starts at the length of all text handed to the tree builder before   *)
(* it and is as long as the piece.                                         *)
(***************************************************************************)
RECURSIVE C15_LenBefore(_, _)
C15_LenBefore(marks, k) ==
    IF k <= 1 THEN 0 ELSE C15_LenBefore(marks, k - 1) + RangeLen(marks[k - 1].range)
C15_Step ==
    (Handles("Token") /\ spc' = "run") =>
        /\ NewCalls # <<>>
        /\ NewCalls[1].op = "token" /\ NewCalls[1].kind = event'.kind
        /\ C15_LenBefore(NewMarks, Len(NewMarks) + 1) = Len(NewCalls[1].text)
        /\ \A k \in 1..Len(NewMarks) :
              NewMarks[k].range.start = Len(RenderedText) + C15_LenBefore(NewMarks, k)
C15_MarksAtEmittedPosition == [][C15_Step]_vars

(***************************************************************************)
(* C16: a FloatSplit event with the cursor not on a Literal leaf, or on a  *)
(* Literal whose text has no `.`, panics; a Consume event that reaches a   *)
(* Punct leaf whose character is not ASCII panics; and after a panic no    *)
(* further event is handled and no tree is returned.                       *)
(***************************************************************************)
C16_HasDot(text) == \E i \in 1..Len(text) : text[i] = "."
C16_Visible(kind) == kind # "Invisible"
\* within n units from c the walk of a Consume event meets a non-ASCII Punct
RECURSIVE C16_Reaches(_, _)
C16_Reaches(c, n) ==
    IF n = 0 THEN FALSE
    ELSE CASE ents[c].e = "Eof" -> FALSE
           [] ents[c].e = "Leaf" ->
                IF ents[c].leaf.tt = "Punct" /\ ents[c].leaf.char \in NonAscii THEN TRUE
                ELSE C16_Reaches(c + 1, n - 1)
           [] ents[c].e = "Subtree" ->
                C16_Reaches(c + 1, IF C16_Visible(ents[c].kind) THEN n - 1 ELSE n)
           [] OTHER ->
                C16_Reaches(c + 1, IF C16_Visible(ents[ents[c].parent].kind) THEN n - 1 ELSE n)
C16_Units == IF event'.kind = "LIFETIME_IDENT" THEN 2 ELSE event'.n_input_tokens
C16_Step ==
    /\ (Handles("FloatSplit")
        /\ ~(IsLeafAt(cursor, "Literal") /\ C16_HasDot(ents[cursor].leaf.text))) =>
            spc' = "panic"
    /\ (Handles("Token") /\ C16_Reaches(cursor, C16_Units)) => spc' = "panic"
    /\ spc = "panic" => spc' = "panic" /\ events' = events /\ inner' = inner
C16_ContractViolationsPanic == [][C16_Step]_vars

\* `a` then a non-ASCII Punct, taken by one Consume of two units
C16_Witness ==
    /\ spc = "panic"
    /\ event = [ev |-> "Token", kind |-> "IDENT", n_input_tokens |-> 2]
    /\ cursor = 1 /\ IsLeafAt(1, "Ident")
    /\ IsLeafAt(2, "Punct") /\ ents[2].leaf.char \in NonAscii

(***************************************************************************)
(* C17, as stated: an Error event attaches its message to the tree at the  *)
(* length of all text handed to the tree builder so far, leaves the        *)
(* cursor, the text position, the pending buffer and the Span Map as they  *)
(* were, and does not stop the sink.                                       *)
(***************************************************************************)
C17_Step ==
    Handles("Error") =>
        /\ NewCalls = <<BError(event'.msg, Len(RenderedText))>>
        /\ UNCHANGED <<cursor, text_pos, buf, token_map>>
        /\ spc' = "run"
C17_ErrorAtEmittedPosition == [][C17_Step]_vars

(***************************************************************************)
(* C18: every main-loop iteration of convert_tokens consumes exactly one   *)
(* unit of the input and the loop ends when none is left; every recovery   *)
(* iteration removes one frame; every parser event is handled once, and a  *)
(* Consume event moves the cursor forward by one entry per pass of its     *)
(* inner loop, never past the end of the buffer; so every step of either  *)
(* direction lowers a measure that never falls below zero.                 *)
(***************************************************************************)
C18_Step ==
    /\ (pc = "loop" /\ pc' = "loop") => NConsumed' = NConsumed + 1
    /\ (pc = "loop" /\ pc' = "recover") => NConsumed = Len(Units) /\ stack' = stack
    /\ (pc = "recover" /\ pc' = "recover") => Len(stack') = Len(stack) - 1
    /\ (pc = "recover" /\ pc' = "done") => Len(stack) = 1
    /\ (spc = "run" /\ events' # events) => events' = events + 1
    /\ (Handles("Token") /\ spc' = "run") =>
            /\ cursor <= cursor' /\ cursor' <= Len(ents)
            /\ (cursor' = cursor) => Cursor_eof(cursor)
            /\ Len(NewMarks) <= cursor' - cursor
            /\ Len(NewMarks) <= lifetime_n_tokens(event'.kind, event'.n_input_tokens)
\* a bound on what is left to do: two per unit the main loop has not taken,
\* one per open frame, and one per buffer entry the cursor has not passed
C18_BufferBound == 7 * Len(toks) + 3
C18_Forward ==
    CASE pc = "start" -> 2 * Len(Units) + 4
      [] pc = "loop" -> 2 * (Len(Units) - NConsumed) + Len(stack) + 2
      [] pc = "recover" -> Len(stack) + 1
      [] pc = "done" -> 1
      [] OTHER -> 0
C18_Reverse ==
    CASE spc = "idle" -> C18_BufferBound
      [] spc = "run" -> Len(ents) - cursor + 1
      [] OTHER -> 0
C18_Measure == C18_Forward + C18_Reverse
C18_Decreases == C18_Measure' < C18_Measure
C18_Terminates == [][C18_Step /\ C18_Decreases]_vars /\ [](C18_Measure >= 0)

\* `((a`: two recovery iterations, then the reverse conversion to its end
C18_Witness ==
    /\ RoundTripDone /\ toks = <<tLParen, tLParen, tA>>
    /\ events = 3 /\ Cursor_eof(cursor)

(***************************************************************************)
(* C19, as stated: when parse_to_token_tree returns a Subtree, a Span Map  *)
(* built during the conversion comes with it, holding an entry for every   *)
(* span of the converted text.                                             *)
(***************************************************************************)
C19_MapHolds(sp) == \E k \in 1..Len(token_map) : token_map[k].span = sp
C19_SpanMapReturned ==
    (Returned /\ backend = "raw") => \A sp \in OutputSpans : C19_MapHolds(sp)

(***************************************************************************)
(* C19, amended: parse_to_token_tree returns the root Subtree alone, or no *)
(* result when the lexer reported an error; no Span Map is consulted or    *)
(* built, and every span of the output is one the converter constructed:   *)
(* the caller's anchor, the no-hygiene context and the range of the token  *)
(* in the text (the quote's and the name's slices for a lifetime).         *)
(***************************************************************************)
C19_Raw == backend = "raw"
C19_Result ==
    (C19_Raw /\ pc = "done") =>
        /\ lexErrors <=> result = <<>>
        /\ result # <<>> => result[1].tt = "Subtree"
        /\ \A sp \in OutputSpans : \E i \in 1..Len(Units) : sp \in C14_Spans(Units[i])
C19_NoMap ==
    C19_Raw => /\ token_map = <<>>
               /\ \A i \in 1..Len(toks) : span_for(TokRange(i)) = <<>>
C19_Step == C19_Raw => token_map' = token_map
C19_SubtreeOnly == [][C19_Step]_vars /\ []C19_Result /\ []C19_NoMap

\* `a+` from text: two leaves with constructed spans and no map
C19_Witness ==
    /\ Returned /\ backend = "raw" /\ toks = <<tA, tPlus>>
    /\ result[1].token_trees[1].span = SpanData(Range(0, 1), Anchor, CtxDUMMY)
    /\ result[1].token_trees[2].span = SpanData(Range(1, 2), Anchor, CtxDUMMY)
    /\ token_map = <<>>

(***************************************************************************)
(* C20: a Map holds at most one value per type; a new Map holds none; get  *)
(* returns the value stored for its type and changes nothing;              *)
(* or_insert_with on a vacant entry calls the default once, stores its     *)
(* result and returns it; on an occupied entry it returns the stored value *)
(* without calling the default or replacing the value; and no operation    *)
(* changes the value stored for another type.                              *)
(***************************************************************************)
C20_Slots(m, T) == {sl \in Hashes \X (1..Cardinality(Types) + 1) :
                       sl[2] <= Len(m[sl[1]]) /\ m[sl[1]][sl[2]].key = T}
\* what is stored for T: <<>> or <<value>>
C20_ValueIn(m, T) ==
    IF C20_Slots(m, T) = {} THEN <<>>
    ELSE LET sl == CHOOSE x \in C20_Slots(m, T) : TRUE IN <<m[sl[1]][sl[2]].value>>
C20_Value(T) == C20_ValueIn(raw, T)
C20_AtMostOne == \A T \in Types : Cardinality(C20_Slots(raw, T)) <= 1
C20_NewIsEmpty == ret.op = "new" => \A T \in Types : C20_Value(T) = <<>>
C20_Step ==
    /\ (pending = <<>> /\ pending' = <<>>) =>
            /\ ret'.op = "get" /\ ret'.value = C20_Value(ret'.type)
            /\ raw' = raw /\ ncalls' = ncalls
    /\ (pending = <<>> /\ pending' # <<>>) =>
            /\ pending'[1].key = ret'.type
            /\ pending'[1].e = (IF C20_Value(ret'.type) = <<>> THEN "Vacant" ELSE "Occupied")
            /\ raw' = raw /\ ncalls' = ncalls
    /\ (pending # <<>>) =>
            LET T == pending[1].key
            IN /\ pending' = <<>> /\ ret'.type = T
               /\ ret'.op \in {"or_insert_with", "insert"}
               /\ ret'.op = "or_insert_with" =>
                    IF C20_Value(T) = <<>>
                    THEN /\ ncalls' = ncalls + 1
                         /\ ret'.value \in Values
                         /\ C20_ValueIn(raw', T) = <<ret'.value>>
                    ELSE /\ ncalls' = ncalls
                         /\ ret'.value = C20_Value(T)[1]
                         /\ C20_ValueIn(raw', T) = C20_Value(T)
               \* insert on the Vacant variant stores the value it was given
               /\ ret'.op = "insert" =>
                    /\ C20_Value(T) = <<>> /\ ncalls' = ncalls
                    /\ C20_ValueIn(raw', T) = <<ret'.value>>
               /\ \A U \in Types \ {T} : C20_ValueIn(raw', U) = C20_Value(U)
C20_ZeroOrOnePerType == [][C20_Step]_vars /\ []C20_AtMostOne /\ []C20_NewIsEmpty

\* A and C share a hash: with 2 stored for A and 1 for C, or_insert_with on
\* the occupied C returns 1
C20_Witness ==
    /\ ret.op = "or_insert_with" /\ ret.type = "C" /\ ret.entry = "Occupied"
    /\ ret.value = 1 /\ ncalls = 2
    /\ C20_Value("A") = <<2>> /\ C20_Value("C") = <<1>> /\ C20_Value("B") = <<>>

(***************************************************************************)
(* C21, as stated: finish after a write of eight bytes returns the u64     *)
(* those bytes form in native byte order; a write of any other length      *)
(* panics in a debug build, and in a release build finish then returns     *)
(* zero, whatever was written before.                                      *)
(***************************************************************************)
C21_U64(bytes) ==
    IF build.endian = "little" THEN [i \in 1..8 |-> bytes[9 - i]] ELSE bytes
C21_Step ==
    /\ (hbytes' # hbytes /\ Len(hbytes'[1]) # 8 /\ build.profile = "debug") => hpc' = "panic"
    /\ (hout' # hout /\ hbytes # <<>>) =>
            hout' = <<IF Len(hbytes[1]) = 8 THEN C21_U64(hbytes[1]) ELSE Zero64>>
C21_Panics == (hbytes # <<>> /\ Len(hbytes[1]) # 8 /\ build.profile = "debug") => hpc = "panic"
C21_HasherContract == [][C21_Step]_vars /\ []C21_Panics

(***************************************************************************)
(* C22: in the main loop a frame is popped exactly when the token is the   *)
(* closer of the innermost frame's delimiter kind; the popped frame gets   *)
(* the closer's span as its close span and becomes the last child of the   *)
(* new top frame.  An opener pushes one empty frame of its kind whose open *)
(* span is the opener's span.  No other token changes the stack depth.     *)
(***************************************************************************)
C22_Openers == {"L_PAREN", "L_CURLY", "L_BRACK"}
C22_DelimOf(kind) ==
    CASE kind = "L_PAREN" -> "Parenthesis" [] kind = "L_CURLY" -> "Brace"
      [] kind = "L_BRACK" -> "Bracket"
C22_Closes(kind, frame) ==
    \/ kind = "R_PAREN" /\ frame.kind = "Parenthesis"
    \/ kind = "R_CURLY" /\ frame.kind = "Brace"
    \/ kind = "R_BRACK" /\ frame.kind = "Bracket"
C22_Step ==
    (pc = "loop" /\ pc' = "loop" /\ NConsumed < Len(Units)) =>
        LET u == Units[NConsumed + 1]
            kind == UnitKind(u)
            n == Len(stack)
        IN /\ Len(stack') < n <=> C22_Closes(kind, Top(stack))
           /\ Len(stack') > n <=> kind \in C22_Openers
           /\ C22_Closes(kind, Top(stack)) =>
                 /\ n > 1 /\ Len(stack') = n - 1
                 /\ SubSeq(stack', 1, n - 2) = SubSeq(stack, 1, n - 2)
                 /\ Top(stack') =
                      [stack[n - 1] EXCEPT !.token_trees =
                          Append(@, [Top(stack) EXCEPT !.close = UnitSpan(u)])]
           /\ kind \in C22_Openers =>
                 /\ Len(stack') = n + 1
                 /\ SubSeq(stack', 1, n) = stack
                 /\ Top(stack').kind = C22_DelimOf(kind)
                 /\ Top(stack').open = UnitSpan(u)
                 /\ Top(stack').token_trees = <<>>
C22_FramesFollowDelimiters == [][C22_Step]_vars

\* `{()`: the `)` has closed the inner frame, whose subtree is the last
\* child of the `{` frame
C22_Witness ==
    /\ pc = "loop" /\ toks = <<tLCurly, tLParen, tRParen>> /\ mapMode = "none"
    /\ NConsumed = 3 /\ Len(stack) = 2
    /\ Top(stack).kind = "Brace"
    /\ Len(Top(stack).token_trees) = 1
    /\ Top(stack).token_trees[1].kind = "Parenthesis"
    /\ Top(stack).token_trees[1].close = UnitSpan(Units[3])

(***************************************************************************)
(* C23: when recovery is over, convert_tokens returns the root frame's     *)
(* only child exactly when the root has one child and that child is a      *)
(* Subtree; with no child, one leaf child or several children it returns   *)
(* the root frame itself, with its Invisible delimiter.                    *)
(***************************************************************************)
C23_Sole(root) == Len(root.token_trees) = 1 /\ root.token_trees[1].tt = "Subtree"
C23_Step ==
    (pc = "recover" /\ pc' = "done") =>
        LET root == stack[1]
        IN /\ Len(stack) = 1 /\ result' # <<>>
           /\ IF C23_Sole(root)
              THEN result'[1] = root.token_trees[1] /\ result'[1] # root
              ELSE result'[1] = root /\ root.kind = "Invisible"
C23_SoleSubtreeReplacesRoot == [][C23_Step]_vars

\* `(a)`: the root's only child, the parenthesized Subtree, is returned
C23_Witness ==
    /\ Returned /\ toks = <<tLParen, tA, tRParen>>
    /\ stack[1].kind = "Invisible" /\ Len(stack[1].token_trees) = 1
    /\ result[1] = stack[1].token_trees[1] /\ result[1].kind = "Parenthesis"

(***************************************************************************)
(* C24, as stated: a Consume event is followed by the whitespace token     *)
(* only when the leaf just consumed and the next leaf are both Alone       *)
(* Puncts (the first not `;`, the second not the quote); before a Joint    *)
(* Punct no whitespace is inserted.                                        *)
(***************************************************************************)
C24_Whitespace == Len(NewCalls) = 2 /\ NewCalls[2] = BToken("WHITESPACE", <<" ">>)
C24_AlonePunct(c) == IsLeafAt(c, "Punct") /\ ents[c].leaf.spacing = "Alone"
C24_StepStated ==
    (Handles("Token") /\ spc' = "run" /\ C24_Whitespace) =>
        /\ cursor' > cursor
        /\ C24_AlonePunct(cursor' - 1) /\ ents[cursor' - 1].leaf.char # ";"
        /\ C24_AlonePunct(cursor') /\ ents[cursor'].leaf.char # "'"
C24_WhitespaceOnlyBetweenAlone == [][C24_StepStated]_vars

(***************************************************************************)
(* C24, amended: a Consume event of at least one unit is followed by the   *)
(* whitespace token exactly when the entry at which its last unit began is *)
(* an Alone Punct leaf other than `;` and the entry after it is a Punct    *)
(* leaf other than the quote, whatever the spacing of that next Punct.     *)
(***************************************************************************)
\* the entry after one unit that begins at c
RECURSIVE C24_UnitEnd(_)
C24_UnitEnd(c) ==
    CASE ents[c].e = "Leaf" -> c + 1
      [] ents[c].e = "Subtree" -> IF ents[c].kind = "Invisible" THEN C24_UnitEnd(c + 1) ELSE c + 1
      [] ents[c].e = "End" ->
            IF ents[ents[c].parent].kind = "Invisible" THEN C24_UnitEnd(c + 1) ELSE c + 1
      [] OTHER -> c
\* where the last of n units from c began; last when none is taken
RECURSIVE C24_Last(_, _, _)
C24_Last(c, n, last) ==
    IF n = 0 \/ ents[c].e = "Eof" THEN last ELSE C24_Last(C24_UnitEnd(c), n - 1, c)
C24_Step ==
    (Handles("Token") /\ spc' = "run") =>
        LET l == C24_Last(cursor, lifetime_n_tokens(event'.kind, event'.n_input_tokens), cursor)
        IN C24_Whitespace <=>
              /\ C24_AlonePunct(l) /\ ents[l].leaf.char # ";"
              /\ IsLeafAt(l + 1, "Punct") /\ ents[l + 1].leaf.char # "'"
C24_WhitespaceAfterAlonePunct == [][C24_Step]_vars

\* `+ -=`: whitespace after the Alone `+`, before the Joint `-`
C24_Witness ==
    /\ spc = "run" /\ events = 1 /\ cursor = 2
    /\ IsLeafAt(1, "Punct") /\ ents[1].leaf.spacing = "Alone"
    /\ IsLeafAt(2, "Punct") /\ ents[2].leaf.spacing = "Joint"
    /\ inner = <<BToken(event.kind, <<"+">>), BToken("WHITESPACE", <<" ">>)>>

(***************************************************************************)
(* C25: delimiter text comes from the table ( ) { } [ ]; an Invisible      *)
(* delimiter gives no text, no Span Map entry and is not one of the n      *)
(* units of a Consume event; an Invisible root is converted from its       *)
(* children only, a visible root with its own open and close delimiters.   *)
(***************************************************************************)
C25_Table(kind, closing) ==
    CASE kind = "Parenthesis" -> IF closing THEN <<")">> ELSE <<"(">>
      [] kind = "Brace" -> IF closing THEN <<"}">> ELSE <<"{">>
      [] kind = "Bracket" -> IF closing THEN <<"]">> ELSE <<"[">>
      [] OTHER -> <<>>
C25_LeafText(leaf) == IF leaf.tt = "Punct" THEN <<leaf.char>> ELSE leaf.text
\* the text, the span and the silence of one buffer entry
C25_EntryText(i) ==
    CASE ents[i].e = "Leaf" -> C25_LeafText(ents[i].leaf)
      [] ents[i].e = "Subtree" -> C25_Table(ents[i].kind, FALSE)
      [] ents[i].e = "End" -> C25_Table(ents[ents[i].parent].kind, TRUE)
      [] OTHER -> <<>>
C25_EntrySpan(i) ==
    CASE ents[i].e = "Leaf" -> ents[i].leaf.span
      [] ents[i].e = "Subtree" -> ents[i].open
      [] OTHER -> ents[ents[i].parent].close
C25_Silent(i) ==
    \/ ents[i].e = "Subtree" /\ ents[i].kind = "Invisible"
    \/ ents[i].e = "End" /\ ents[ents[i].parent].kind = "Invisible"
RECURSIVE C25_Text(_, _)
C25_Text(i, j) == IF i >= j THEN <<>> ELSE C25_EntryText(i) \o C25_Text(i + 1, j)
RECURSIVE C25_Marks(_, _, _)
C25_Marks(i, j, at) ==
    IF i >= j THEN <<>>
    ELSE IF C25_Silent(i) THEN C25_Marks(i + 1, j, at)
    ELSE <<[range |-> RangeAt(at, Len(C25_EntryText(i))), span |-> C25_EntrySpan(i)]>>
         \o C25_Marks(i + 1, j, at + Len(C25_EntryText(i)))
\* a token tree as text, an Invisible subtree as its children
RECURSIVE C25_Flat(_)
C25_Flat(trees) ==
    IF trees = <<>> THEN <<>>
    ELSE LET t == Head(trees)
         IN (IF t.tt = "Subtree"
             THEN C25_Table(t.kind, FALSE) \o C25_Flat(t.token_trees) \o C25_Table(t.kind, TRUE)
             ELSE C25_LeafText(t))
            \o C25_Flat(Tail(trees))
C25_Step ==
    (Handles("Token") /\ spc' = "run") =>
        LET n == lifetime_n_tokens(event'.kind, event'.n_input_tokens)
            k == Cardinality({i \in cursor..(cursor' - 1) : ~C25_Silent(i)})
        IN /\ NewCalls[1].text = C25_Text(cursor, cursor')
           /\ NewMarks = C25_Marks(cursor, cursor', text_pos)
           /\ k <= n /\ (k < n => Cursor_eof(cursor'))
C25_Emitted == TextOf(SelectSeq(inner, LAMBDA c : c.op = "token" /\ c.kind # "WHITESPACE"))
C25_Root ==
    (spc \in {"run", "done"}) =>
        /\ C25_Emitted = C25_Text(1, cursor)
        /\ Cursor_eof(cursor) => C25_Emitted = C25_Flat(<<result[1]>>)
C25_DelimiterText == [][C25_Step]_vars /\ []C25_Root

\* `(a)` with an invisible group around the a, consumed by two events
C25_Witness ==
    /\ spc = "run" /\ events = 2 /\ Cursor_eof(cursor) /\ Len(ents) = 6
    /\ result[1].kind = "Parenthesis" /\ result[1].token_trees[1].kind = "Invisible"
    /\ C25_Emitted = <<"(", "a", ")">>
    /\ Len(token_map) = 3

(***************************************************************************)
(* C26: every piece of text handed to the tree builder (leaf text, visible *)
(* delimiter text, the integer and dot tokens of a FloatSplit) has its     *)
(* Span Map entry: the entries' ranges add up to the text emitted,         *)
(* synthesized whitespace aside, and no piece of text goes without one.    *)
(***************************************************************************)
C26_Pieces == SelectSeq(inner, LAMBDA c : c.op = "token" /\ c.kind # "WHITESPACE")
C26_Covered == C15_LenBefore(token_map, Len(token_map) + 1)
C26_EveryTextHasEntry ==
    (spc \in {"run", "done"}) =>
        /\ C26_Covered = Len(TextOf(C26_Pieces))
        /\ Len(token_map) >= Cardinality({i \in 1..Len(C26_Pieces) : C26_Pieces[i].text # <<>>})

(***************************************************************************)
(* C27: a FloatSplit opens and closes its own NAME_REF scopes and closes   *)
(* one enclosing scope after the left part and, without the pseudo dot,    *)
(* one more after the right part: the builder's open-scope depth changes   *)
(* by -1 with has_pseudo_dot and by -2 without, and stays at or above zero *)
(* throughout when that many scopes were open at the event.                *)
(***************************************************************************)
C27_Count(calls, op) == Cardinality({i \in 1..Len(calls) : calls[i].op = op})
C27_Depth(calls) == C27_Count(calls, "start_node") - C27_Count(calls, "finish_node")
C27_Closes(has_pseudo_dot) == IF has_pseudo_dot THEN 1 ELSE 2
C27_Ops(calls) == [i \in 1..Len(calls) |-> calls[i].op]
C27_Step ==
    (Handles("FloatSplit") /\ spc' = "run") =>
        LET closes == C27_Closes(event'.ends_in_dot)
            own == <<"start_node", "token", "finish_node">>
        IN /\ C27_Ops(NewCalls) =
                 IF event'.ends_in_dot
                 THEN own \o <<"finish_node", "token">>
                 ELSE own \o <<"finish_node", "token">> \o own \o <<"finish_node">>
           /\ \A i \in 1..Len(NewCalls) :
                 NewCalls[i].op = "start_node" => NewCalls[i].kind = "NAME_REF"
           /\ C27_Depth(inner') = C27_Depth(inner) - closes
           /\ C27_Depth(inner) >= closes =>
                 \A k \in 0..Len(NewCalls) :
                    C27_Depth(inner \o SubSeq(NewCalls, 1, k)) >= 0
C27_ScopesBalanced == [][C27_Step]_vars

\* `1.5` split with two scopes open: both are closed
C27_Witness ==
    /\ spc = "run" /\ events = 3
    /\ event = [ev |-> "FloatSplit", ends_in_dot |-> FALSE]
    /\ Len(inner) = 11 /\ C27_Depth(SubSeq(inner, 1, 2)) = 2
    /\ C27_Depth(inner) = 0

(***************************************************************************)
(* C28: in the main loop and in the recovery loop of convert_tokens the    *)
(* stack is non-empty, its bottom frame is Invisible and every frame above *)
(* it is Parenthesis, Brace or Bracket; the pop on a matching closer       *)
(* succeeds, the bottom frame stays, and recovery emits `(`, `{` or `[`,   *)
(* never the `$` of an Invisible frame.                                    *)
(***************************************************************************)
C28_Visible == {"Parenthesis", "Brace", "Bracket"}
C28_Frames ==
    (pc \in {"loop", "recover"}) =>
        /\ Len(stack) >= 1
        /\ stack[1].kind = "Invisible"
        /\ \A i \in 2..Len(stack) : stack[i].kind \in C28_Visible
C28_Pop ==
    (pc = "loop" /\ pc' = "loop" /\ NConsumed < Len(Units)
        /\ C22_Closes(UnitKind(Units[NConsumed + 1]), Top(stack))) =>
        /\ Len(stack) >= 2 /\ Len(stack') = Len(stack) - 1
        /\ stack'[1].kind = "Invisible"
C28_Recovery ==
    (pc = "recover" /\ pc' = "recover" /\ stack' # stack) =>
        LET n == Len(stack)
            leaf == stack'[n - 1].token_trees[Len(stack[n - 1].token_trees) + 1]
        IN /\ n >= 2 /\ Len(stack') = n - 1
           /\ leaf.tt = "Punct" /\ leaf.char \in {"(", "{", "["} /\ leaf.char # "$"
           /\ stack'[1].kind = "Invisible"
C28_FrameStack == [][C28_Pop /\ C28_Recovery]_vars /\ []C28_Frames

\* `({)`: two frames were left open and recovery has merged both
C28_Witness ==
    /\ pc = "recover" /\ Len(stack) = 1 /\ Len(toks) = 3
    /\ toks[1].kind = "L_PAREN" /\ toks[2].kind = "L_CURLY" /\ toks[3].kind = "R_PAREN"
    /\ Len(stack[1].token_trees) = 3
    /\ stack[1].token_trees[1].char = "(" /\ stack[1].token_trees[2].char = "{"

(***************************************************************************)
(* C29: for an input of identifiers, keywords, literals and punctuation    *)
(* (no comment, no lifetime), the result of convert_tokens flattened, a    *)
(* Subtree as its open character, its children and its close character,    *)
(* is the input's text in input order; a closer that does not match the    *)
(* innermost frame becomes a Punct leaf and the stack keeps its depth.     *)
(***************************************************************************)
C29_Significant ==
    \A i \in 1..Len(toks) : toks[i].kind \notin {"COMMENT", "LIFETIME_IDENT", "WHITESPACE"}
C29_Closers == {"R_PAREN", "R_CURLY", "R_BRACK"}
C29_Flattened == (Returned /\ C29_Significant) => C25_Flat(<<result[1]>>) = TextOf(toks)
C29_Step ==
    (pc = "loop" /\ pc' = "loop" /\ NConsumed < Len(Units)) =>
        LET u == Units[NConsumed + 1]
        IN (UnitKind(u) \in C29_Closers /\ ~C22_Closes(UnitKind(u), Top(stack))) =>
              /\ Len(stack') = Len(stack)
              /\ SubSeq(stack', 1, Len(stack) - 1) = SubSeq(stack, 1, Len(stack) - 1)
              /\ Len(Top(stack').token_trees) = Len(Top(stack).token_trees) + 1
              /\ Last(Top(stack').token_trees).tt = "Punct"
              /\ Last(Top(stack').token_trees).char = UnitChar(u)
C29_NoTokenLost == [][C29_Step]_vars /\ []C29_Flattened

\* `(}a`: the `}` is a leaf of the `(` frame, which recovery then merges
C29_Witness ==
    /\ Returned /\ Len(toks) = 3
    /\ toks[1].kind = "L_PAREN" /\ toks[2].kind = "R_CURLY" /\ toks[3].kind = "IDENT"
    /\ C25_Flat(<<result[1]>>) = <<"(", "}", "a">>
    /\ result[1].kind = "Invisible" /\ Len(result[1].token_trees) = 3

(***************************************************************************)
(* C30: in TtTreeSink text_pos never decreases; the ranges of the Span Map *)
(* entries recorded so far do not overlap one another and their starts are *)
(* in non-decreasing insertion order; Enter and Exit events change neither *)
(* the cursor, text_pos nor the Span Map.                                  *)
(***************************************************************************)
C30_Ordered ==
    \A i, j \in 1..Len(token_map) :
        i < j => /\ token_map[i].range.start <= token_map[j].range.start
                 /\ token_map[i].range.end <= token_map[j].range.start
C30_Step ==
    /\ text_pos' >= text_pos
    /\ (Handles("Enter") \/ Handles("Exit")) => UNCHANGED <<cursor, text_pos, token_map>>
C30_MonotoneSink == [][C30_Step]_vars /\ []C30_Ordered

\* `+ -=`: `+` and a whitespace, then `-`, then an Enter
C30_Witness ==
    /\ spc = "run" /\ events = 3 /\ event.ev = "Enter"
    /\ Len(token_map) = 2 /\ text_pos = 3
    /\ token_map[1].range = Range(0, 1) /\ token_map[2].range = Range(2, 3)

(***************************************************************************)
(* C31: the subtrees parse_exprs_with_sep returns, taken in order with one *)
(* separator Punct put back after each fragment whose separator was        *)
(* committed, are the input's top-level token trees: a committed separator *)
(* is in no fragment, every other token tree is in exactly one; only the   *)
(* last subtree can be the catch-all; a pushed fragment takes at least one *)
(* token tree, so the loop runs at most once per input token tree.         *)
(***************************************************************************)
\* the returned subtrees from the k-th on, the first standing at place i of
\* the input, with the committed separators back in
RECURSIVE C31_Rebuilt(_, _)
C31_Rebuilt(k, i) ==
    IF k > Len(res) THEN <<>>
    ELSE LET piece == Covered(res[k])
             j == i + Len(piece)
             committed == j <= Len(split_tt) /\ IsSep(split_tt[j])
         IN piece \o (IF committed THEN <<split_tt[j]>> ELSE <<>>)
                  \o C31_Rebuilt(k + 1, IF committed THEN j + 1 ELSE j)
\* what has been taken from the input so far
C31_Taken == SubSeq(split_tt, 1, (IF ppc = "sep" /\ iter <= Len(split_tt)
                                     /\ IsSep(split_tt[iter]) THEN iter ELSE iter - 1))
C31_Conserved ==
    /\ (ppc \in {"loop", "sep", "tail"}) => C31_Rebuilt(1, 1) = C31_Taken
    /\ (ppc = "done") => C31_Rebuilt(1, 1) = split_tt
    /\ (ppc = "loop") => Len(res) < iter
    /\ (ppc \in {"loop", "sep", "tail", "done"}) => Len(res) <= Len(split_tt)
C31_Step ==
    \* a pass of the loop: a fragment of at least one token tree, or nothing
    /\ (ppc = "loop" /\ ppc' = "sep") =>
          /\ iter <= Len(split_tt) /\ iter' > iter
          /\ Len(res') = Len(res) + 1 /\ SubSeq(res', 1, Len(res)) = res
          /\ Covered(Last(res')) = SubSeq(split_tt, iter, iter' - 1)
    /\ (ppc = "loop" /\ ppc' = "tail") => (iter' = iter /\ res' = res)
    \* the separator, committed or not
    /\ (ppc = "sep" /\ ppc' = "loop") =>
          (IsSep(split_tt[iter]) /\ iter' = iter + 1 /\ res' = res)
    /\ (ppc = "sep" /\ ppc' = "tail") => (iter' = iter /\ res' = res)
    \* the catch-all comes last
    /\ (ppc = "tail" /\ ppc' = "done") =>
          IF iter <= Len(split_tt)
          THEN /\ Len(res') = Len(res) + 1 /\ SubSeq(res', 1, Len(res)) = res
               /\ Last(res').kind = "Invisible"
               /\ Last(res').token_trees = SubSeq(split_tt, iter, Len(split_tt))
          ELSE res' = res
    /\ (ppc = "done") => res' = res
C31_TokensConserved == [][C31_Step]_vars /\ []C31_Conserved

\* `a , (a) 1`: one separator committed, `1` in the catch-all
C31_Witness ==
    /\ ppc = "done" /\ sep = ","
    /\ split_tt = MkItems(<<"a", ",", "(a)", "1">>)
    /\ Len(res) = 3
    /\ res[2] = split_tt[3]
    /\ res[3].token_trees = <<split_tt[4]>>

(***************************************************************************)
(* C32: map_from_syntax_node returns one entry per descendant token of the *)
(* node, in order, keyed by the token's absolute range, with the span      *)
(* [absolute range - anchor_offset, the anchor, the no-hygiene context];   *)
(* it makes no check of anchor_offset against the node's start: nothing    *)
(* can fail before the subtraction for a token is made.                    *)
(***************************************************************************)
C32_Entry(i) ==
    [range |-> Range(TokStart(i), TokStart(i + 1)),
     span |-> [range |-> Range(TokStart(i) - anchor_offset,
                               TokStart(i + 1) - anchor_offset),
               anchor |-> Anchor, ctx |-> CtxDUMMY]]
C32_Returned ==
    (mfpc = "done") =>
        /\ Len(map) = Len(toks)
        /\ \A i \in 1..Len(toks) : map[i] = C32_Entry(i)
C32_Step ==
    /\ (mfpc = "start" /\ mfpc' # "start") => (mfpc' = "each" /\ map' = <<>>)
    /\ (mfpc # "panic" /\ mfpc' = "panic") =>
          (mfpc = "each" /\ Len(map) < Len(toks)
             /\ TokStart(Len(map) + 1) < anchor_offset)
C32_OneEntryPerToken == [][C32_Step]_vars /\ []C32_Returned

\* a whitespace and an identifier, anchored at the node's start
C32_Witness ==
    /\ mfpc = "done" /\ anchor_offset = NodeRange.start /\ anchor_offset > 0
    /\ Len(toks) = 2 /\ toks[1].kind = "WHITESPACE" /\ toks[2].kind = "IDENT"
    /\ Len(map) = 2
    /\ map[2].range = Range(anchor_offset + 1, anchor_offset + 2)
    /\ map[2].span.range = Range(1, 2)
====
